---- MODULE Spec2Model ----
(***************************************************************************)
(* aira-musicbot: one guild session.  The orchestrator (DiscordBot and the *)
(* HTTP routes) owns the queue state and talks to the guild's worker       *)
(* thread over two ordered message channels; the worker owns the voice     *)
(* connection, the audio player and the ffmpeg encoder subprocesses.       *)
(***************************************************************************)
EXTENDS Integers, Sequences, FiniteSets, TLC

\* ------------------------------------------------------------------ bounds
MaxQueue == 2      \* longest requestQueue an enqueue may extend
MaxChan == 1       \* messages in flight before a user or the worker waits
MaxProcs == 2      \* encoder subprocess slots tracked at once
MaxPending == 1    \* requestNext handlers suspended in the duration lookup
MaxReady == 1      \* connection-ready signals per session
MaxOrphans == 1    \* replaced workers still running at once
MaxLen == 3        \* longest album bucket a pure function is called with
MaxTag == 3        \* longest text of a replay-gain tag
MaxHandlers == 2   \* suspended requestNext handlers where their order matters
MaxSignals == 2    \* connection-ready signals where their order matters

\* ------------------------------------------------------------ track records
\* null as a track, null as a track list, undefined and a defined value
Null == [id |-> "null"]
NullTracks == <<Null>>
Undefined == [undefined |-> TRUE]
Value(v) == [value |-> v]
NoKey == ""

Trk(id, album, key, disc, num, skip, love) ==
  [id |-> id, album |-> album, key |-> key, disc |-> disc, num |-> num,
   skip |-> skip, love |-> love]

\* S1 and X as the first parse reports them, S1B, S2 and XB as the second
\* does: S2 has joined the sequence group of S1, and the shuffle flags of S1
\* and X have been swapped.  S1C and S2C are S1 and S2 as the third parse
\* reports them: the sequence key is gone.  YT and YT2 are two YouTube videos.
S1 == Trk("S1", "Alb", "K", 1, 1, "1", "")
X == Trk("X", "Alb", NoKey, 1, 3, "", "")
S1B == Trk("S1", "Alb", "K", 1, 1, "", "")
S2 == Trk("S2", "Alb", "K", 1, 2, "1", "")
XB == Trk("X", "Alb", NoKey, 1, 3, "", "B")
S1C == Trk("S1", "Alb", NoKey, 1, 1, "1", "")
S2C == Trk("S2", "Alb", NoKey, 1, 2, "1", "")
\* yt-dlp fails for the url "bad"
youtubeUrlToTrackInfo(url) ==
  IF url = "bad" THEN Null ELSE Trk(url, "Youtube", NoKey, 0, 0, "", "")
YT == youtubeUrlToTrackInfo("YT")
YT2 == youtubeUrlToTrackInfo("YT2")

\* The library before the first parse has finished, and the libraries three
\* later parses of the iTunes XML produce (the last has no track left that
\* shuffling may pick).  Every bucket is in the order
\* sortArtistMap leaves it in: by (Disc Number, Track Number).
EmptyLibrary == [allTracksCount |-> 0, albums |-> << >>, artistMap |-> << >>]

Catalogs ==
  << [allTracksCount |-> 2, albums |-> <<"Alb">>,
      artistMap |-> [a \in {"Alb"} |-> <<S1, X>>]],
     [allTracksCount |-> 3, albums |-> <<"Alb">>,
      artistMap |-> [a \in {"Alb"} |-> <<S1B, S2, XB>>]],
     [allTracksCount |-> 3, albums |-> <<"Alb">>,
      artistMap |-> [a \in {"Alb"} |-> <<S1C, S2C, XB>>]] >>

\* What a parse reports once the album has been removed from the iTunes
\* library: another album with one track.
Oth == Trk("O", "Oth", NoKey, 1, 1, "", "")
WithoutAlbum ==
  [allTracksCount |-> 1, albums |-> <<"Oth">>,
   artistMap |-> [a \in {"Oth"} |-> <<Oth>>]]

Library(v) ==
  IF v = 0 THEN EmptyLibrary
  ELSE IF v <= Len(Catalogs) THEN Catalogs[v]
  ELSE WithoutAlbum

\* ---------------------------------------------------------- musicService
Eligible(t) == t.skip # "1" /\ t.love # "B"

RECURSIVE Flatten(_, _)
Flatten(L, i) ==
  IF i > Len(L.albums) THEN << >>
  ELSE L.artistMap[L.albums[i]] \o Flatten(L, i + 1)

\* The reservoir loop of getRandomItem over the tracks from index i on:
\* the set of values selectedTrack can end with, over all random draws.
\* Math.random() is in [0, 1), so the draw for the first eligible track
\* (1 / 1) always succeeds.
\* Faulty variant: the draw for the first eligible track can fail too.
RECURSIVE ReservoirMayMiss(_, _, _, _)
ReservoirMayMiss(ts, i, totalValidTracks, selectedTrack) ==
  IF i > Len(ts) THEN {selectedTrack}
  ELSE IF Eligible(ts[i])
    THEN ReservoirMayMiss(ts, i + 1, totalValidTracks + 1, ts[i])
           \cup ReservoirMayMiss(ts, i + 1, totalValidTracks + 1, selectedTrack)
    ELSE ReservoirMayMiss(ts, i + 1, totalValidTracks, selectedTrack)

\* Faulty variant: only the SkipWhenShuffling flag excludes a track.
RECURSIVE ReservoirIgnoresLove(_, _, _, _)
ReservoirIgnoresLove(ts, i, totalValidTracks, selectedTrack) ==
  IF i > Len(ts) THEN {selectedTrack}
  ELSE IF ts[i].skip # "1"
    THEN LET n == totalValidTracks + 1
         IN  ReservoirIgnoresLove(ts, i + 1, n, ts[i])
               \cup (IF n > 1 THEN ReservoirIgnoresLove(ts, i + 1, n, selectedTrack) ELSE {})
    ELSE ReservoirIgnoresLove(ts, i + 1, totalValidTracks, selectedTrack)

RECURSIVE Reservoir(_, _, _, _)
Reservoir(ts, i, totalValidTracks, selectedTrack) ==
  IF i > Len(ts) THEN {selectedTrack}
  ELSE IF Eligible(ts[i])
    THEN LET n == totalValidTracks + 1
         IN  Reservoir(ts, i + 1, n, ts[i])
               \cup (IF n > 1 THEN Reservoir(ts, i + 1, n, selectedTrack) ELSE {})
    ELSE Reservoir(ts, i + 1, totalValidTracks, selectedTrack)

getRandomItem(L) ==
  IF L.allTracksCount = 0 THEN {Null}
  ELSE Reservoir(Flatten(L, 1), 1, 0, Null)

\* Array.prototype.sort with the comparator a.num - b.num: stable.
RECURSIVE InsertByNum(_, _)
InsertByNum(t, s) ==
  IF s = << >> THEN <<t>>
  ELSE IF t.num <= Head(s).num THEN <<t>> \o s
  ELSE <<Head(s)>> \o InsertByNum(t, Tail(s))

RECURSIVE SortByNum(_)
SortByNum(s) ==
  IF s = << >> THEN << >>
  ELSE InsertByNum(Head(s), SortByNum(Tail(s)))

FilterKey(s, key) == SelectSeq(s, LAMBDA t : t.key = key)

\* Faulty variant: a track without a sequence key has no sequence.
sequenceTracksKeyedOnly(track, L) ==
  IF track.key # NoKey
    THEN SortByNum(FilterKey(L.artistMap[track.album], track.key))
    ELSE << >>

\* sequenceTracks throws a TypeError when the track has a sequence key and
\* the library has no entry for its album: artistMap[...][...] is undefined.
sequenceTracksThrows(track, L) ==
  track.key # NoKey /\ track.album \notin DOMAIN L.artistMap

sequenceTracks(track, L) ==
  IF track.key # NoKey
    THEN SortByNum(FilterKey(L.artistMap[track.album], track.key))
    ELSE <<track>>

\* calculateTrackDuration: the sum of the durations music-metadata reports;
\* every file of the model lasts one unit.
calculateTrackDuration(tracks) == Len(tracks)

Ids(s) == [i \in 1..Len(s) |-> s[i].id]

\* ------------------------------------------------------------------- state
VARIABLES
  lib,                  \* which parse result libraryData holds (0: none yet)
  guildStateMap,        \* "none" | "active" | "deleted": the guild's entry
  currentTrack,         \* GuildState.currentTrack: NullTracks or a track list
  requestQueue,         \* GuildState.requestQueue
  playbackStartTime,    \* Undefined or Value("now")
  currentTrackDuration, \* Undefined or Value(seconds)
  pendingNext,          \* requestNext handlers awaiting calculateTrackDuration
  leaveIssued,          \* history: "no" | "issued" | "answered" (see LeaveCommand)
  notice,               \* what the last queue-update notification found
  res,                  \* the last HTTP response: "none", "ok", "400 ..." or "404 ..."
  console,              \* the last console line about an unknown tag
  orphans,              \* running workers whose map entry was overwritten
  reply,                \* the last reply to a /join interaction, or "none"
  peer,                 \* the session of a second guild (see PeerInit)
  call,                 \* the last call of a pure function and its result
  pendingYoutube,       \* the /youtubeplay handler awaiting yt-dlp, or NoDownload
  toWorker,             \* commands posted to the worker, in order
  toMain,               \* events posted by the worker, in order
  worker,               \* "none" | "init" | "running" | "exit0" | "exit1"
  leave,                \* EventHandler.leave
  conn,                 \* "none" | "signalling" | "ready" | "destroyed"
  readyCount,           \* connection-ready signals so far
  player,               \* AudioPlayer: "idle" | "playing" | "stopping"
  metadata,             \* AudioManager.metadata: 0 (null) or a process slot
  procs,                \* slot -> "free" | "live" | "signalled" | exit status
  pendingPlay,          \* play handlers awaiting buildFfmpegArgs
  killers               \* killFfmpegProcess calls waiting for exit or timer

\* What only /join, the second guild, the pure-function calls and a
\* /youtubeplay that waits for its download change
aux == <<reply, peer, call, pendingYoutube>>

orch == <<aux, lib, guildStateMap, currentTrack, requestQueue, playbackStartTime,
          currentTrackDuration, pendingNext, leaveIssued, notice, res,
          console, orphans>>
wrk == <<worker, leave, conn, readyCount, player, metadata, procs,
         pendingPlay, killers>>
vars == <<orch, toWorker, toMain, wrk>>

Pids == 1..MaxProcs

\* The second guild before its /join: no entry in guildStateMap, no worker.
PeerInit ==
  [map |-> "none", requestQueue |-> << >>, currentTrack |-> << >>,
   toWorker |-> << >>, toMain |-> << >>, worker |-> "none", leave |-> FALSE,
   conn |-> "none", player |-> "idle", encoder |-> "free"]

NoCall == [f |-> "none"]

\* No /youtubeplay handler is waiting.
NoDownload == [url |-> "none", st |-> "none"]

Init ==
  /\ lib = 0
  /\ guildStateMap = "none"
  /\ currentTrack = NullTracks
  /\ requestQueue = << >>
  /\ playbackStartTime = Undefined
  /\ currentTrackDuration = Undefined
  /\ pendingNext = << >>
  /\ leaveIssued = "no"
  /\ notice = "none"
  /\ res = "none"
  /\ console = "none"
  /\ orphans = 0
  /\ reply = "none"
  /\ peer = PeerInit
  /\ call = NoCall
  /\ pendingYoutube = NoDownload
  /\ toWorker = << >>
  /\ toMain = << >>
  /\ worker = "none"
  /\ leave = FALSE
  /\ conn = "none"
  /\ readyCount = 0
  /\ player = "idle"
  /\ metadata = 0
  /\ procs = [p \in Pids |-> "free"]
  /\ pendingPlay = 0
  /\ killers = {}

\* ------------------------------------------------------------ orchestrator
\* worker.postMessage: a command for a terminated worker is still posted;
\* the dead worker discards it (WorkerDiscard).  A user command waits while
\* MaxChan commands are in flight; the handlers of worker events never wait.
CanPost == Len(toWorker) < MaxChan

\* DiscordBot.getGuildState, and what notifyQueueUpdate finds when it calls
\* it: the guild's state or undefined.
getGuildState(map) == IF map = "active" THEN "GuildState" ELSE "undefined"

notifyQueueUpdate(map) == getGuildState(map)

\* The answer of a route to a request for a guild without an entry
NotJoined == "400 Bot is not joined in this guild"

\* libraryService: a finished parse replaces libraryData.
loadLibraryDataAsync ==
  /\ lib < Len(Catalogs)
  /\ lib' = lib + 1
  /\ UNCHANGED <<aux, guildStateMap, currentTrack, requestQueue, playbackStartTime,
                 currentTrackDuration, pendingNext, leaveIssued, notice, res,
                 console, orphans, toWorker, toMain, wrk>>

\* A parse that finishes after the album has been removed from the library.
loadLibraryWithoutAlbum ==
  /\ lib \in 1..Len(Catalogs)
  /\ lib' = Len(Catalogs) + 1
  /\ UNCHANGED <<aux, guildStateMap, currentTrack, requestQueue, playbackStartTime,
                 currentTrackDuration, pendingNext, leaveIssued, notice, res,
                 console, orphans, toWorker, toMain, wrk>>

\* /join: a fresh GuildState and a fresh worker thread replace the guild's
\* entry, whatever it was.  A worker the entry named that has not exited
\* runs on as an orphan, with its channels, its encoders and the handlers
\* suspended for it.
Join ==
  /\ orphans' = orphans + (IF worker \in {"init", "running"} THEN 1 ELSE 0)
  /\ orphans' <= MaxOrphans
  /\ guildStateMap' = "active"
  /\ currentTrack' = << >>
  /\ requestQueue' = << >>
  /\ playbackStartTime' = Undefined
  /\ currentTrackDuration' = Undefined
  /\ pendingNext' = << >>
  /\ toWorker' = << >>
  /\ toMain' = << >>
  /\ worker' = "init"
  /\ leave' = FALSE
  /\ conn' = "none"
  /\ readyCount' = 0
  /\ player' = "idle"
  /\ metadata' = 0
  /\ procs' = [p \in Pids |-> "free"]
  /\ pendingPlay' = 0
  /\ killers' = {}
  /\ reply' = "joined"
  /\ pendingYoutube' = IF pendingYoutube = NoDownload THEN NoDownload
                       ELSE [pendingYoutube EXCEPT !.st = "replaced"]
  /\ UNCHANGED <<peer, call, lib, leaveIssued, notice, res, console>>

\* Faulty variant: /leave posts its command without looking the guild up.
LeaveCommandUnchecked(observe) ==
  /\ CanPost
  /\ toWorker' = Append(toWorker, [event |-> "leave"])
  /\ UNCHANGED <<aux, lib, guildStateMap, currentTrack, requestQueue,
                 playbackStartTime, currentTrackDuration, pendingNext,
                 leaveIssued, notice, res, console, orphans, toMain, wrk>>

\* /leave: posts leave to the worker of the guild's entry, if any.
\* With observe, leaveIssued records the first /leave issued while the
\* worker's player is playing, and whether the orchestrator has handled an
\* event since.
LeaveCommand(observe) ==
  /\ IF guildStateMap = "active"
       THEN /\ CanPost
            /\ toWorker' = Append(toWorker, [event |-> "leave"])
            /\ leaveIssued' = IF observe /\ leaveIssued = "no" /\ player = "playing"
                                THEN "issued"
                                ELSE leaveIssued
       ELSE UNCHANGED <<toWorker, leaveIssued>>
  /\ UNCHANGED <<aux, lib, guildStateMap, currentTrack, requestQueue,
                 playbackStartTime, currentTrackDuration, pendingNext,
                 notice, res, console, orphans, toMain, wrk>>

\* GET /skip
SkipRoute ==
  /\ IF guildStateMap = "active"
       THEN /\ CanPost
            /\ toWorker' = Append(toWorker, [event |-> "skip"])
            /\ res' = "ok"
       ELSE /\ res' = NotJoined
            /\ UNCHANGED toWorker
  /\ UNCHANGED <<aux, lib, guildStateMap, currentTrack, requestQueue,
                 playbackStartTime, currentTrackDuration, pendingNext,
                 leaveIssued, notice, console, orphans, toMain, wrk>>

\* GET /requestplay/:artist/:album/:title, for the i-th title of the album
RequestPlayRoute(album, i) ==
  /\ IF guildStateMap # "active"
       THEN /\ res' = NotJoined
            /\ UNCHANGED <<requestQueue, notice>>
       ELSE IF \/ album \notin DOMAIN Library(lib).artistMap
               \/ i \notin 1..Len(Library(lib).artistMap[album])
         THEN /\ res' = "404 Not found"
              /\ UNCHANGED <<requestQueue, notice>>
         ELSE LET found == Library(lib).artistMap[album][i]
                  tracks == sequenceTracks(found, Library(lib))
              IN  /\ Len(requestQueue) + Len(tracks) <= MaxQueue
                  /\ requestQueue' = requestQueue \o tracks
                  /\ notice' = notifyQueueUpdate(guildStateMap)
                  /\ res' = "ok"
  /\ UNCHANGED <<aux, lib, guildStateMap, currentTrack, playbackStartTime,
                 currentTrackDuration, pendingNext, leaveIssued, console,
                 orphans, toWorker, toMain, wrk>>

\* GET /youtubeplay/:url when no other handler runs while it awaits
\* youtubeUrlToTrackInfo
YoutubePlayRoute(url) ==
  /\ IF guildStateMap # "active"
       THEN /\ res' = NotJoined
            /\ UNCHANGED <<requestQueue, notice>>
       ELSE IF youtubeUrlToTrackInfo(url) = Null
         THEN /\ res' = "400 Failed to convert YouTube URL to track info"
              /\ UNCHANGED <<requestQueue, notice>>
       ELSE /\ Len(requestQueue) < MaxQueue
            /\ requestQueue' = Append(requestQueue, youtubeUrlToTrackInfo(url))
            /\ notice' = notifyQueueUpdate(guildStateMap)
            /\ res' = "ok"
  /\ UNCHANGED <<aux, lib, guildStateMap, currentTrack, playbackStartTime,
                 currentTrackDuration, pendingNext, leaveIssued, console,
                 orphans, toWorker, toMain, wrk>>

\* /youtubeplay as two steps of one handler: the lookup of the guild's
\* state up to the await of youtubeUrlToTrackInfo, and the rest once yt-dlp
\* has finished.  The handler keeps the GuildState it looked up: "entry" while
\* that object is the one the map holds or held last, "replaced" once a
\* later /join has put a new object in the map.
YoutubePlayLookup(url) ==
  /\ pendingYoutube = NoDownload
  /\ IF guildStateMap # "active"
       THEN /\ res' = NotJoined
            /\ UNCHANGED pendingYoutube
       ELSE /\ pendingYoutube' = [url |-> url, st |-> "entry"]
            /\ UNCHANGED res
  /\ UNCHANGED <<reply, peer, call, lib, guildStateMap, currentTrack,
                 requestQueue, playbackStartTime, currentTrackDuration,
                 pendingNext, leaveIssued, notice, console, orphans, toWorker,
                 toMain, wrk>>

YoutubePlayResume ==
  /\ pendingYoutube # NoDownload
  /\ pendingYoutube' = NoDownload
  /\ IF youtubeUrlToTrackInfo(pendingYoutube.url) = Null
       THEN /\ res' = "400 Failed to convert YouTube URL to track info"
            /\ UNCHANGED <<requestQueue, notice>>
       ELSE \* st.requestQueue.push: seen only while st is the map's entry
            /\ IF pendingYoutube.st = "entry" /\ guildStateMap = "active"
                 THEN /\ Len(requestQueue) < MaxQueue
                      /\ requestQueue' = Append(requestQueue,
                                                youtubeUrlToTrackInfo(pendingYoutube.url))
                 ELSE UNCHANGED requestQueue
            /\ notice' = notifyQueueUpdate(guildStateMap)
            /\ res' = "ok"
  /\ UNCHANGED <<reply, peer, call, lib, guildStateMap, currentTrack,
                 playbackStartTime, currentTrackDuration, pendingNext,
                 leaveIssued, console, orphans, toWorker, toMain, wrk>>

\* The three branches of the requestNext handler, up to the first await or
\* the return.  The queue and random branches suspend in
\* calculateTrackDuration with the tracks they will play.
\* n times Array.prototype.shift (a shift of an empty array does nothing).
RECURSIVE Shift(_, _)
Shift(q, n) ==
  IF n <= 0 \/ q = << >> THEN q ELSE Shift(Tail(q), n - 1)

Dequeue(q) ==
  LET tracks == sequenceTracks(Head(q), Library(lib))
      trackCount == Len(tracks)
  IN  [tracks |-> tracks, queue |-> Shift(Tail(q), trackCount - 1)]

RequestNextQueueUpTo(n) ==
  /\ requestQueue # << >>
  /\ ~sequenceTracksThrows(Head(requestQueue), Library(lib))
  /\ Len(pendingNext) < n
  /\ LET d == Dequeue(requestQueue)
     IN  /\ requestQueue' = d.queue
         /\ currentTrack' = d.tracks
         /\ playbackStartTime' = Value("now")
         /\ pendingNext' = Append(pendingNext, d.tracks)
  /\ UNCHANGED <<currentTrackDuration, toWorker>>

RequestNextQueue == RequestNextQueueUpTo(MaxPending)

RequestNextRandom ==
  /\ requestQueue = << >>
  /\ \E randItem \in getRandomItem(Library(lib)) :
       /\ randItem # Null
       /\ Len(pendingNext) < MaxPending
       /\ LET tracks == sequenceTracks(randItem, Library(lib))
          IN  /\ currentTrack' = tracks
              /\ playbackStartTime' = Value("now")
              /\ pendingNext' = Append(pendingNext, tracks)
  /\ UNCHANGED <<requestQueue, currentTrackDuration, toWorker>>

\* Faulty variant: the playback times of the last track are kept.
RequestNextExhaustedKeepsTimes ==
  /\ requestQueue = << >>
  /\ Null \in getRandomItem(Library(lib))
  /\ currentTrack' = NullTracks
  /\ toWorker' = Append(toWorker, [event |-> "leave"])
  /\ UNCHANGED <<requestQueue, pendingNext, playbackStartTime,
                 currentTrackDuration>>

RequestNextExhausted ==
  /\ requestQueue = << >>
  /\ Null \in getRandomItem(Library(lib))
  /\ currentTrack' = NullTracks
  /\ playbackStartTime' = Undefined
  /\ currentTrackDuration' = Undefined
  /\ toWorker' = Append(toWorker, [event |-> "leave"])
  /\ UNCHANGED <<requestQueue, pendingNext>>

\* worker.on("message") for a requestNext event: the head of the event
\* channel is handled by the branch the queue and the library select.
Receive(event) ==
  /\ toMain # << >>
  /\ Head(toMain).event = event
  /\ toMain' = Tail(toMain)
  /\ leaveIssued' = IF leaveIssued = "issued" THEN "answered" ELSE leaveIssued

OnRequestNextQueue ==
  /\ Receive("requestNext")
  /\ RequestNextQueue
  /\ UNCHANGED <<aux, lib, guildStateMap, notice, res, console, orphans, wrk>>

\* The same handler where up to n handlers may be suspended at once
OnRequestNextQueueUpTo(n) ==
  /\ Receive("requestNext")
  /\ RequestNextQueueUpTo(n)
  /\ UNCHANGED <<aux, lib, guildStateMap, notice, res, console, orphans, wrk>>

OnRequestNextRandom ==
  /\ Receive("requestNext")
  /\ RequestNextRandom
  /\ UNCHANGED <<aux, lib, guildStateMap, notice, res, console, orphans, wrk>>

OnRequestNextExhausted ==
  /\ Receive("requestNext")
  /\ RequestNextExhausted
  /\ UNCHANGED <<aux, lib, guildStateMap, notice, res, console, orphans, wrk>>

\* The queue branch when sequenceTracks throws: the head has been shifted
\* off the queue, the handler's promise is rejected and nothing else is done.
OnRequestNextThrows ==
  /\ Receive("requestNext")
  /\ requestQueue # << >>
  /\ sequenceTracksThrows(Head(requestQueue), Library(lib))
  /\ requestQueue' = Tail(requestQueue)
  /\ UNCHANGED <<aux, lib, guildStateMap, currentTrack, playbackStartTime,
                 currentTrackDuration, pendingNext, notice, res, console,
                 orphans, toWorker, wrk>>

\* The rest of a requestNext handler, once the durations are known.
RequestNextResume(i) ==
  /\ i \in 1..Len(pendingNext)
  /\ LET tracks == pendingNext[i]
     IN  /\ currentTrackDuration' = Value(calculateTrackDuration(tracks))
         /\ notice' = notifyQueueUpdate(guildStateMap)
         /\ toWorker' = Append(toWorker, [event |-> "play", data |-> Ids(tracks)])
  /\ pendingNext' = SubSeq(pendingNext, 1, i - 1)
                      \o SubSeq(pendingNext, i + 1, Len(pendingNext))
  /\ UNCHANGED <<aux, lib, guildStateMap, currentTrack, requestQueue,
                 playbackStartTime, leaveIssued, res, console, orphans,
                 toMain, wrk>>

\* Faulty variant: the notification is sent before the entry is deleted.
OnDisconnectNotifiesFirst ==
  /\ Receive("disconnect")
  /\ toWorker' = Append(toWorker, [event |-> "shutdown"])
  /\ notice' = notifyQueueUpdate(guildStateMap)
  /\ guildStateMap' = "deleted"
  /\ UNCHANGED <<aux, lib, currentTrack, requestQueue, playbackStartTime,
                 currentTrackDuration, pendingNext, res, console, orphans,
                 wrk>>

OnDisconnect ==
  /\ Receive("disconnect")
  /\ toWorker' = Append(toWorker, [event |-> "shutdown"])
  /\ guildStateMap' = "deleted"
  /\ notice' = notifyQueueUpdate(guildStateMap')
  /\ UNCHANGED <<aux, lib, currentTrack, requestQueue, playbackStartTime,
                 currentTrackDuration, pendingNext, res, console, orphans,
                 wrk>>

\* The disconnect event of an orphan: its handler posts shutdown to the
\* orphan, which exits, and deletes the entry the guild has now.
OrphanDisconnect ==
  /\ orphans > 0
  /\ orphans' = orphans - 1
  /\ guildStateMap' = IF guildStateMap = "none" THEN "none" ELSE "deleted"
  /\ notice' = notifyQueueUpdate(guildStateMap')
  /\ UNCHANGED <<aux, lib, currentTrack, requestQueue, playbackStartTime,
                 currentTrackDuration, pendingNext, leaveIssued, res,
                 console, toWorker, toMain, wrk>>

\* error events are written to the console.
OnError ==
  /\ Receive("error")
  /\ UNCHANGED <<aux, lib, guildStateMap, currentTrack, requestQueue,
                 playbackStartTime, currentTrackDuration, pendingNext,
                 notice, res, console, orphans, toWorker, wrk>>

\* log events are written to the console; the model keeps the line of an
\* unknown command.
OnLog ==
  /\ Receive("log")
  /\ console' = Head(toMain).message
  /\ UNCHANGED <<aux, lib, guildStateMap, currentTrack, requestQueue,
                 playbackStartTime, currentTrackDuration, pendingNext,
                 notice, res, orphans, toWorker, wrk>>

\* Faulty variant: an event of an unknown tag ends the session.
OnUnknownEventDisconnects ==
  /\ toMain # << >>
  /\ Head(toMain).event \notin {"requestNext", "disconnect", "error", "log"}
  /\ CanPost
  /\ toMain' = Tail(toMain)
  /\ toWorker' = Append(toWorker, [event |-> "shutdown"])
  /\ guildStateMap' = "deleted"
  /\ notice' = "undefined"
  /\ leaveIssued' = IF leaveIssued = "issued" THEN "answered" ELSE leaveIssued
  /\ UNCHANGED <<aux, lib, currentTrack, requestQueue, playbackStartTime,
                 currentTrackDuration, pendingNext, res, console, orphans,
                 wrk>>

\* An event with a tag of none of the four branches: nothing is done.
KnownEvents == {"requestNext", "disconnect", "error", "log"}

OnUnknownEvent ==
  /\ toMain # << >>
  /\ Head(toMain).event \notin KnownEvents
  /\ toMain' = Tail(toMain)
  /\ leaveIssued' = IF leaveIssued = "issued" THEN "answered" ELSE leaveIssued
  /\ UNCHANGED <<aux, lib, guildStateMap, currentTrack, requestQueue,
                 playbackStartTime, currentTrackDuration, pendingNext,
                 notice, res, console, orphans, toWorker, wrk>>

\* ------------------------------------------------------------------ worker
Live == {"live", "signalled"}
Exited == {"exit0", "exit1"}

\* A worker step that may post an event waits while MaxChan events are in
\* flight.
CanEmit == Len(toMain) < MaxChan

RequestNext == [event |-> "requestNext"]
ErrorEvent(what) == [event |-> "error", error |-> what]
DisconnectEvent == [event |-> "disconnect"]

\* A slot whose process has exited and that metadata no longer names is
\* forgotten.
Forget(ps, md) ==
  [p \in Pids |-> IF ps[p] \notin Live /\ p # md THEN "free" ELSE ps[p]]

\* AudioPlayer.stop(): a playing player goes idle after its silence frames.
stop(pl) == IF pl = "playing" THEN "stopping" ELSE pl

\* Faulty variant: disconnect() stops the player and keeps the connection.
disconnectStopsOnly ==
  [player |-> stop(player), conn |-> conn, events |-> << >>]

\* ConnectionManager.disconnect() with the Destroyed listener it triggers:
\* the new player state, the new connection state and the events posted.
disconnect ==
  [player |-> stop(player),
   conn |-> IF conn \in {"signalling", "ready"} THEN "destroyed" ELSE conn,
   events |-> IF conn \in {"signalling", "ready"} THEN <<DisconnectEvent>>
              ELSE << >>]

\* worker/discord/index.ts and DiscordPlayWorker.initialize
Initialize ==
  /\ worker = "init"
  /\ \/ /\ worker' = "running"
        /\ conn' = "signalling"
     \/ /\ worker' = "exit1"
        /\ conn' = conn
  /\ UNCHANGED <<orch, toWorker, toMain, leave, readyCount,
                 player, metadata, procs, pendingPlay, killers>>

\* Faulty variant: a ready signal only marks the connection ready.
OnReadyWithoutRequest ==
  /\ worker = "running"
  /\ conn \in {"signalling", "ready"}
  /\ readyCount < MaxReady
  /\ CanEmit
  /\ conn' = "ready"
  /\ readyCount' = readyCount + 1
  /\ toMain' = toMain
  /\ UNCHANGED <<orch, toWorker, worker, leave, player,
                 metadata, procs, pendingPlay, killers>>

\* VoiceConnectionStatus.Ready, for the first n signals of a session
OnReadyUpTo(n) ==
  /\ worker = "running"
  /\ conn \in {"signalling", "ready"}
  /\ readyCount < n
  /\ CanEmit
  /\ conn' = "ready"
  /\ readyCount' = readyCount + 1
  /\ toMain' = Append(toMain, RequestNext)
  /\ UNCHANGED <<orch, toWorker, worker, leave, player,
                 metadata, procs, pendingPlay, killers>>

OnReady == OnReadyUpTo(MaxReady)

\* VoiceConnectionStatus.Disconnected, then Destroyed
OnDisconnected ==
  /\ worker = "running"
  /\ conn \in {"signalling", "ready"}
  /\ CanEmit
  /\ conn' = "destroyed"
  /\ toMain' = Append(toMain, DisconnectEvent)
  /\ UNCHANGED <<orch, toWorker, worker, leave, readyCount,
                 player, metadata, procs, pendingPlay, killers>>

\* killFfmpegProcess up to its first await.  "none": the guard fails and the
\* call returns at once; "wait": SIGTERM is sent and the call waits; "fail":
\* the process has no handle left, both kill() calls return false and the
\* call returns after posting the error.
KillEntry ==
  IF metadata = 0 \/ procs[metadata] \in {"free", "exit0", "exitErr"} THEN "none"
  ELSE IF procs[metadata] \in Live THEN "wait"
  ELSE "fail"

\* A waiting call: the process it captured, the signal it sent last
\* ("term" or "kill"), how many of its 10 s timers have fired, its caller.
Waiting(caller) ==
  [proc |-> metadata, phase |-> "term", fired |-> 0, caller |-> caller]

KillError == ErrorEvent("Failed to kill FFMPEG process")

\* Faulty variant: the signal is sent and the call returns without waiting
\* for the exit.
killWithoutWaiting(caller) ==
  IF KillEntry = "wait"
    THEN [procs |-> [procs EXCEPT ![metadata] = "signalled"],
          killers |-> killers, events |-> << >>, returned |-> TRUE]
    ELSE [procs |-> procs, killers |-> killers,
          events |-> IF KillEntry = "fail" THEN <<KillError>> ELSE << >>,
          returned |-> TRUE]

\* Faulty variant: SIGKILL is sent at once, with no graceful phase.
killWithoutGrace(caller) ==
  IF KillEntry = "wait"
    THEN [procs |-> [procs EXCEPT ![metadata] = "signalled"],
          killers |-> killers \cup {[Waiting(caller) EXCEPT !.phase = "kill"]},
          events |-> << >>, returned |-> FALSE]
    ELSE [procs |-> procs, killers |-> killers,
          events |-> IF KillEntry = "fail" THEN <<KillError>> ELSE << >>,
          returned |-> TRUE]

\* What a call of killFfmpegProcess does before it returns or suspends.
killFfmpegProcess(caller) ==
  CASE KillEntry = "none" ->
         [procs |-> procs, killers |-> killers, events |-> << >>, returned |-> TRUE]
    [] KillEntry = "wait" ->
         [procs |-> [procs EXCEPT ![metadata] = "signalled"],
          killers |-> killers \cup {Waiting(caller)},
          events |-> << >>, returned |-> FALSE]
    [] KillEntry = "fail" ->
         [procs |-> procs, killers |-> killers, events |-> <<KillError>>,
          returned |-> TRUE]

\* AudioPlayerStatus.Idle
OnIdle ==
  /\ worker = "running"
  /\ player \in {"playing", "stopping"}
  /\ CanEmit
  /\ player' = "idle"
  /\ IF leave
       THEN UNCHANGED <<toMain, procs, killers>>
       ELSE LET kill == killFfmpegProcess("idle")
            IN  /\ procs' = kill.procs
                /\ killers' = kill.killers
                /\ toMain' = toMain \o kill.events
                     \o (IF kill.returned THEN <<RequestNext>> ELSE << >>)
  /\ UNCHANGED <<orch, toWorker, worker, leave, conn, readyCount, metadata,
                 pendingPlay>>

\* process.exit in the worker thread: its suspended handlers are gone.
ExitWorker(code) ==
  /\ worker' = code
  /\ killers' = {}
  /\ pendingPlay' = 0
  /\ player' = "idle"

\* Faulty variant: the events of other channels of the guild count too.
OnVoiceStateUpdateAnyChannel(sameGuild, thisChannel, cached, botLeft, nonBot) ==
  /\ worker = "running"
  /\ CanEmit
  /\ IF sameGuild /\ ~leave
        /\ (~cached \/ (~botLeft /\ nonBot = 0))
       THEN /\ leave' = TRUE
            /\ player' = disconnect.player
            /\ conn' = disconnect.conn
            /\ toMain' = toMain \o disconnect.events
       ELSE UNCHANGED <<leave, player, conn, toMain>>
  /\ UNCHANGED <<orch, toWorker, worker, readyCount, metadata,
                 procs, pendingPlay, killers>>

\* Events.VoiceStateUpdate, with what the event and the caches hold:
\* whether oldState is of this guild, whether either state names this
\* channel, whether the channel is in the guild's channel cache, whether the
\* bot itself left, and how many non-bot members the channel has.
OnVoiceStateUpdate(sameGuild, thisChannel, cached, botLeft, nonBot) ==
  /\ worker = "running"
  /\ CanEmit
  /\ IF sameGuild /\ thisChannel /\ ~leave
        /\ (~cached \/ (~botLeft /\ nonBot = 0))
       THEN \* leaveVoiceChannel
            /\ leave' = TRUE
            /\ player' = disconnect.player
            /\ conn' = disconnect.conn
            /\ toMain' = toMain \o disconnect.events
       ELSE UNCHANGED <<leave, player, conn, toMain>>
  /\ UNCHANGED <<orch, toWorker, worker, readyCount, metadata,
                 procs, pendingPlay, killers>>

\* MessageHandler.handleLeave
handleLeave ==
  /\ leave' = TRUE
  /\ player' = disconnect.player
  /\ conn' = disconnect.conn
  /\ toMain' = toMain \o disconnect.events
  /\ UNCHANGED <<worker, metadata, procs, pendingPlay, killers>>

\* Faulty variant: a play command is started whatever it carries.
handlePlaySpawnsAnyway(message) ==
  /\ pendingPlay' = pendingPlay + 1
  /\ UNCHANGED <<toMain, worker, leave, conn, player, metadata, procs,
                 killers>>

\* MessageHandler.handlePlay up to the await in AudioManager.play
handlePlay(message) ==
  /\ IF "data" \notin DOMAIN message
       THEN /\ toMain' = Append(toMain, ErrorEvent("Play message requires track data"))
            /\ UNCHANGED pendingPlay
       ELSE IF message.data = << >>
         THEN /\ toMain' = Append(toMain, ErrorEvent("No tracks provided."))
              /\ UNCHANGED pendingPlay
         ELSE /\ pendingPlay' = pendingPlay + 1
              /\ UNCHANGED toMain
  /\ UNCHANGED <<worker, leave, conn, player, metadata, procs,
                 killers>>

\* Faulty variant: a skip is taken for a leave.
handleSkipLeaves ==
  /\ player' = stop(player)
  /\ leave' = TRUE
  /\ UNCHANGED <<worker, conn, metadata, procs, pendingPlay, killers, toMain>>

\* MessageHandler.handleSkip
handleSkip ==
  /\ player' = stop(player)
  /\ UNCHANGED <<worker, leave, conn, metadata, procs,
                 pendingPlay, killers, toMain>>

\* MessageHandler.handleShutdown
handleShutdown ==
  /\ LET kill == killFfmpegProcess("shutdown")
     IN  /\ procs' = kill.procs
         /\ toMain' = toMain \o kill.events
         /\ IF kill.returned
              THEN ExitWorker("exit0")
              ELSE /\ killers' = kill.killers
                   /\ UNCHANGED <<worker, pendingPlay, player>>
  /\ UNCHANGED <<leave, conn, metadata>>

\* handleMessage, default branch: a log event and nothing else
UnknownMessageLog == [event |-> "log", message |-> "Unknown message event"]

handleUnknown ==
  /\ toMain' = Append(toMain, UnknownMessageLog)
  /\ UNCHANGED <<worker, leave, conn, player, metadata, procs, pendingPlay,
                 killers>>

\* parentPort.on("message")
OnMessage ==
  /\ worker = "running"
  /\ toWorker # << >>
  /\ CanEmit
  /\ toWorker' = Tail(toWorker)
  /\ LET message == Head(toWorker)
     IN  CASE message.event = "leave" -> handleLeave
           [] message.event = "play" -> handlePlay(message)
           [] message.event = "skip" -> handleSkip
           [] message.event = "shutdown" -> handleShutdown
           [] OTHER -> handleUnknown
  /\ UNCHANGED <<orch, readyCount>>

\* A command posted to a worker thread that has terminated is lost.
WorkerDiscard ==
  /\ worker \in Exited
  /\ toWorker # << >>
  /\ toWorker' = Tail(toWorker)
  /\ UNCHANGED <<orch, toMain, wrk>>

FreeSlots == {p \in Pids : procs[p] \notin Live}

\* AudioManager.play after buildFfmpegArgs: spawn, audioPlayer.play and the
\* metadata assignment.
play ==
  /\ worker = "running"
  /\ pendingPlay > 0
  /\ FreeSlots # {}
  /\ LET p == CHOOSE q \in FreeSlots : \A r \in FreeSlots : q <= r
     IN  /\ procs' = Forget([procs EXCEPT ![p] = "live"], p)
         /\ metadata' = p
  /\ player' = "playing"
  /\ pendingPlay' = pendingPlay - 1
  /\ UNCHANGED <<orch, toWorker, toMain, worker, leave, conn,
                 readyCount, killers>>

\* AudioManager.play when ffmpeg cannot be spawned: the error listener posts
\* the error event, the process never runs and its output ends at once.
playSpawnFails ==
  /\ worker = "running"
  /\ pendingPlay > 0
  /\ FreeSlots # {}
  /\ CanEmit
  /\ LET p == CHOOSE q \in FreeSlots : \A r \in FreeSlots : q <= r
     IN  /\ procs' = Forget([procs EXCEPT ![p] = "spawnErr"], p)
         /\ metadata' = p
  /\ toMain' = Append(toMain, ErrorEvent("FFMPEG process error"))
  /\ player' = "playing"
  /\ pendingPlay' = pendingPlay - 1
  /\ UNCHANGED <<orch, toWorker, worker, leave, conn, readyCount, killers>>

\* Faulty variant: an abnormal exit asks for the next track.
ProcessExitRequestsNext(p, status) ==
  /\ procs[p] \in Live
  /\ status \in {"exit0", "exitErr"} \cup (IF procs[p] = "signalled" THEN {"exitSig"} ELSE {})
  /\ procs' = Forget([procs EXCEPT ![p] = status], metadata)
  /\ IF worker = "running"
       THEN LET done == {k \in killers : k.proc = p}
                idle == {k \in done : k.caller = "idle"}
            IN  /\ CanEmit
                /\ toMain' = toMain
                     \o (IF status = "exitErr" THEN <<ErrorEvent("FFMPEG process exited")>> ELSE << >>)
                     \o (IF idle # {} \/ status = "exitErr" THEN <<RequestNext>> ELSE << >>)
                /\ IF \E k \in done : k.caller = "shutdown"
                     THEN ExitWorker("exit0")
                     ELSE /\ killers' = killers \ done
                          /\ UNCHANGED <<worker, pendingPlay, player>>
       ELSE UNCHANGED <<toMain, worker, pendingPlay, player, killers>>
  /\ UNCHANGED <<orch, toWorker, leave, conn, readyCount, metadata>>

\* The encoder exits: the exit listener of play, then every
\* killFfmpegProcess call waiting for it returns to its caller.
ProcessExit(p, status) ==
  /\ procs[p] \in Live
  /\ status \in {"exit0", "exitErr"} \cup (IF procs[p] = "signalled" THEN {"exitSig"} ELSE {})
  /\ procs' = Forget([procs EXCEPT ![p] = status], metadata)
  /\ IF worker = "running"
       THEN LET done == {k \in killers : k.proc = p}
                idle == {k \in done : k.caller = "idle"}
            IN  /\ CanEmit
                /\ toMain' = toMain
                     \o (IF status = "exitErr" THEN <<ErrorEvent("FFMPEG process exited")>> ELSE << >>)
                     \o (IF idle # {} THEN <<RequestNext>> ELSE << >>)
                /\ IF \E k \in done : k.caller = "shutdown"
                     THEN ExitWorker("exit0")
                     ELSE /\ killers' = killers \ done
                          /\ UNCHANGED <<worker, pendingPlay, player>>
       ELSE UNCHANGED <<toMain, worker, pendingPlay, player, killers>>
  /\ UNCHANGED <<orch, toWorker, leave, conn, readyCount, metadata>>

\* Faulty variant: a failed SIGKILL takes the worker down.
KillTimeoutFatal(k) ==
  /\ worker = "running"
  /\ k \in killers
  /\ CanEmit
  /\ IF k.phase = "term"
       THEN /\ killers' = (killers \ {k}) \cup {[k EXCEPT !.phase = "kill", !.fired = 1]}
            /\ UNCHANGED <<toMain, worker, pendingPlay, player>>
       ELSE /\ toMain' = Append(toMain, KillError)
            /\ ExitWorker("exit1")
  /\ UNCHANGED <<orch, toWorker, leave, conn, readyCount,
                 metadata, procs>>

\* One of the two 10 s timers of a waiting killFfmpegProcess call fires.
KillTimeout(k) ==
  /\ worker = "running"
  /\ k \in killers
  /\ CanEmit
  /\ IF k.phase = "term"
       THEN \* catch: SIGKILL is sent and the call waits again
            /\ killers' = (killers \ {k}) \cup {[k EXCEPT !.phase = "kill", !.fired = 1]}
            /\ UNCHANGED <<toMain, worker, pendingPlay, player>>
       ELSE \* catch: the error event, and the call returns
            /\ IF k.caller = "idle"
                 THEN /\ toMain' = toMain \o <<KillError, RequestNext>>
                      /\ killers' = killers \ {k}
                      /\ UNCHANGED <<worker, pendingPlay, player>>
                 ELSE /\ toMain' = Append(toMain, KillError)
                      /\ ExitWorker("exit0")
  /\ UNCHANGED <<orch, toWorker, leave, conn, readyCount,
                 metadata, procs>>

\* ------------------------------------------------------------ second guild
\* The session of a second guild H, with its own entry in guildStateMap, its
\* own worker thread and ports.  Its handlers are the handlers above, run
\* with the guild id and the GuildState of H; an encoder of H exits as soon
\* as it is signalled, buildFfmpegArgs and calculateTrackDuration take no
\* time, and the queue of H holds YouTube tracks only, so that no play
\* command of H is rejected, no error event is posted and no command is
\* posted to its worker once it has exited.  res and notice keep recording the requests of
\* the first guild.
guild ==
  <<lib, guildStateMap, currentTrack, requestQueue, playbackStartTime,
    currentTrackDuration, pendingNext, leaveIssued, notice, res, console,
    orphans, pendingYoutube, toWorker, toMain, wrk>>

PeerCanPost == Len(peer.toWorker) < MaxChan
PeerCanEmit == Len(peer.toMain) < MaxChan

\* /join in guild H
PeerJoin ==
  /\ peer' = [PeerInit EXCEPT !.map = "active", !.worker = "init"]
  /\ UNCHANGED <<reply, call, guild>>

\* DiscordPlayWorker.initialize of the worker of H
PeerInitialize ==
  /\ peer.worker = "init"
  /\ peer' = [peer EXCEPT !.worker = "running", !.conn = "signalling"]
  /\ UNCHANGED <<reply, call, guild>>

\* VoiceConnectionStatus.Ready in the worker of H
PeerOnReady ==
  /\ peer.worker = "running"
  /\ peer.conn = "signalling"
  /\ PeerCanEmit
  /\ peer' = [peer EXCEPT !.conn = "ready",
                          !.toMain = Append(@, RequestNext)]
  /\ UNCHANGED <<reply, call, guild>>

\* Faulty variant: /skip posts to the worker of the first entry of the map.
PeerSkipRouteFirstEntry ==
  /\ peer.map = "active"
  /\ guildStateMap = "active"
  /\ CanPost
  /\ toWorker' = Append(toWorker, [event |-> "skip"])
  /\ UNCHANGED <<aux, lib, guildStateMap, currentTrack, requestQueue,
                 playbackStartTime, currentTrackDuration, pendingNext,
                 leaveIssued, notice, res, console, orphans, toMain, wrk>>

\* /skip with the guildid header of H
PeerSkipRoute ==
  /\ peer.map = "active"
  /\ PeerCanPost
  /\ peer' = [peer EXCEPT !.toWorker = Append(@, [event |-> "skip"])]
  /\ UNCHANGED <<reply, call, guild>>

\* /leave in guild H
PeerLeaveCommand ==
  /\ peer.map = "active"
  /\ PeerCanPost
  /\ peer' = [peer EXCEPT !.toWorker = Append(@, [event |-> "leave"])]
  /\ UNCHANGED <<reply, call, guild>>

\* /youtubeplay with the guildid header of H
PeerYoutubePlayRoute(url) ==
  /\ peer.map = "active"
  /\ youtubeUrlToTrackInfo(url) # Null
  /\ Len(peer.requestQueue) < MaxQueue
  /\ peer' = [peer EXCEPT !.requestQueue = Append(@, youtubeUrlToTrackInfo(url))]
  /\ UNCHANGED <<reply, call, guild>>

\* worker.on("message") of H, requestNext: the head of the queue of H, or a
\* random pick from the library both guilds share, or leave.
PeerOnRequestNext ==
  /\ peer.toMain # << >>
  /\ Head(peer.toMain).event = "requestNext"
  /\ IF peer.requestQueue # << >>
       THEN peer' = [peer EXCEPT
                       !.toMain = Tail(@),
                       !.requestQueue = Tail(@),
                       !.currentTrack = <<Head(peer.requestQueue)>>,
                       !.toWorker = Append(@, [event |-> "play",
                                               data |-> <<Head(peer.requestQueue).id>>])]
       ELSE \E randItem \in getRandomItem(Library(lib)) :
              IF randItem # Null
                THEN peer' = [peer EXCEPT
                                !.toMain = Tail(@),
                                !.currentTrack = sequenceTracks(randItem, Library(lib)),
                                !.toWorker = Append(@, [event |-> "play",
                                   data |-> Ids(sequenceTracks(randItem, Library(lib)))])]
                ELSE peer' = [peer EXCEPT
                                !.toMain = Tail(@),
                                !.currentTrack = NullTracks,
                                !.toWorker = Append(@, [event |-> "leave"])]
  /\ UNCHANGED <<reply, call, guild>>

\* worker.on("message") of H, disconnect
PeerOnDisconnect ==
  /\ peer.toMain # << >>
  /\ Head(peer.toMain).event = "disconnect"
  /\ peer' = [peer EXCEPT !.toMain = Tail(@),
                          !.toWorker = Append(@, [event |-> "shutdown"]),
                          !.map = "deleted"]
  /\ UNCHANGED <<reply, call, guild>>

\* ConnectionManager.disconnect in the worker of H
PeerDisconnected(pr) ==
  IF pr.conn \in {"signalling", "ready"}
    THEN [pr EXCEPT !.player = stop(@), !.conn = "destroyed",
                    !.toMain = Append(@, DisconnectEvent)]
    ELSE [pr EXCEPT !.player = stop(@)]

\* parentPort.on("message") in the worker of H
PeerOnMessage ==
  /\ peer.worker = "running"
  /\ peer.toWorker # << >>
  /\ PeerCanEmit
  /\ LET message == Head(peer.toWorker)
         taken == [peer EXCEPT !.toWorker = Tail(@)]
     IN  peer' =
           CASE message.event = "leave" ->
                  PeerDisconnected([taken EXCEPT !.leave = TRUE])
             [] message.event = "play" ->
                  IF message.data = << >>
                    THEN [taken EXCEPT !.toMain = Append(@, ErrorEvent("No tracks provided."))]
                    ELSE [taken EXCEPT !.encoder = "live", !.player = "playing"]
             [] message.event = "skip" ->
                  [taken EXCEPT !.player = stop(@)]
             [] message.event = "shutdown" ->
                  [taken EXCEPT !.encoder = "free", !.worker = "exit0",
                                !.player = "idle"]
  /\ UNCHANGED <<reply, call, guild>>

\* AudioPlayerStatus.Idle in the worker of H
PeerOnIdle ==
  /\ peer.worker = "running"
  /\ peer.player \in {"playing", "stopping"}
  /\ PeerCanEmit
  /\ peer' = IF peer.leave
               THEN [peer EXCEPT !.player = "idle"]
               ELSE [peer EXCEPT !.player = "idle", !.encoder = "free",
                                 !.toMain = Append(@, RequestNext)]
  /\ UNCHANGED <<reply, call, guild>>

\* ------------------------------------------------------------ specification
\* /join for a guild without an entry
FirstJoin == guildStateMap = "none" /\ Join

\* A request of a user who waits for the session to exist
Joined == guildStateMap = "active"

Orchestrator ==
  \/ FirstJoin
  \/ OnRequestNextQueue
  \/ OnRequestNextExhausted
  \/ \E i \in 1..MaxPending : RequestNextResume(i)
  \/ OnDisconnect
  \/ OnError

Encoder ==
  \E p \in Pids, status \in {"exit0", "exitErr", "exitSig"} : ProcessExit(p, status)

Worker ==
  \/ Initialize
  \/ OnReady
  \/ OnIdle
  \/ OnMessage
  \/ play
  \/ Encoder

\* The session protocol: the queue is fed by /youtubeplay alone, before any
\* library parse has finished.
Session ==
  \/ Orchestrator
  \/ Worker
  \/ Joined /\ YoutubePlayRoute("YT")
  \/ Joined /\ SkipRoute
  \/ WorkerDiscard
  \/ OnDisconnected
  \/ \E cached \in BOOLEAN, nonBot \in 0..1 :
       OnVoiceStateUpdate(TRUE, TRUE, cached, FALSE, nonBot)
  \/ \E k \in killers : KillTimeout(k)

Next == Session \/ LeaveCommand(FALSE)

Spec == Init /\ [][Next]_vars

\* The same protocol with the history of /leave recorded.
NextLeave == Session \/ LeaveCommand(TRUE)

SpecLeave == Init /\ [][NextLeave]_vars

\* The queue and the library: every route that fills the queue and every
\* library parse, with a worker whose encoders exit when told to.
NextQueue ==
  \/ Orchestrator
  \/ Worker
  \/ loadLibraryDataAsync
  \/ OnRequestNextRandom
  \/ \E album \in {"Alb"}, i \in 1..3 :
       /\ Joined
       /\ album \in DOMAIN Library(lib).artistMap
       /\ i <= Len(Library(lib).artistMap[album])
       /\ RequestPlayRoute(album, i)
  \/ Joined /\ YoutubePlayRoute("YT")

SpecQueue == Init /\ [][NextQueue]_vars

\* The queue while albums come and go: the session of SpecQueue in which a
\* parse may also find the album gone.
NextReload ==
  \/ NextQueue
  \/ loadLibraryWithoutAlbum
  \/ OnRequestNextThrows

SpecReload == Init /\ [][NextReload]_vars

\* Order: a session before the first parse has finished (the library stays
\* empty), fed by /youtubeplay with two videos, whose connection may become
\* ready again after a reconnect, so that two requestNext handlers can be
\* suspended in calculateTrackDuration at once; either may finish first.
NextOrder ==
  \/ FirstJoin
  \/ Initialize
  \/ OnReadyUpTo(MaxSignals)
  \/ OnRequestNextQueueUpTo(MaxHandlers)
  \/ OnRequestNextExhausted
  \/ \E i \in 1..MaxHandlers : RequestNextResume(i)
  \/ OnDisconnect
  \/ OnMessage
  \/ play
  \/ OnIdle
  \/ \E p \in Pids, status \in {"exit0", "exitSig"} :
       procs[p] = "signalled" /\ ProcessExit(p, status)
  \/ \E url \in {"YT", "YT2"} : Joined /\ YoutubePlayRoute(url)

SpecOrder == Init /\ [][NextOrder]_vars

\* A static library: every parse finishes before the guild's first /join,
\* and the session is then fed by /requestplay, /youtubeplay and random
\* picks from the library it started with.
NextStatic ==
  \/ guildStateMap = "none" /\ loadLibraryDataAsync
  \/ Orchestrator
  \/ OnRequestNextRandom
  \/ Worker
  \/ \E album \in {"Alb"}, i \in 1..3 :
       /\ Joined
       /\ album \in DOMAIN Library(lib).artistMap
       /\ i <= Len(Library(lib).artistMap[album])
       /\ RequestPlayRoute(album, i)
  \/ Joined /\ YoutubePlayRoute("YT")

SpecStatic == Init /\ [][NextStatic]_vars

\* Skipping: a session without /leave, voice-state changes or connection
\* loss, whose connection becomes ready once, whose streams do not end by
\* themselves and whose users act while no message or handler is on its way,
\* with the scheduling the runtime guarantees.  Every posted message is
\* delivered and handled, a stopped player goes idle, buildFfmpegArgs and
\* calculateTrackDuration finish and the timers of killFfmpegProcess fire.
\* In SpecTimers an encoder may ignore every signal for ever; in SpecSkip an
\* encoder that has been sent a signal exits in the end, before or after the
\* timers.  The worker's steps are strongly fair because CanEmit makes them
\* wait for the orchestrator now and then, which the program does not.
Timer == \E k \in killers : KillTimeout(k)

Quiet ==
  /\ toWorker = << >>
  /\ toMain = << >>
  /\ pendingNext = << >>
  /\ pendingPlay = 0
  /\ killers = {}

NextSkip ==
  \/ Orchestrator
  \/ Initialize
  \/ OnReady /\ readyCount = 0
  \/ OnIdle /\ player = "stopping"
  \/ OnMessage
  \/ play
  \/ \E p \in Pids, status \in {"exit0", "exitErr", "exitSig"} :
       procs[p] = "signalled" /\ ProcessExit(p, status)
  \/ \E url \in {"YT", "YT2"} : Joined /\ YoutubePlayRoute(url) /\ Quiet
  \/ Joined /\ SkipRoute /\ Quiet
  \/ Timer

Scheduling ==
  /\ WF_vars(OnRequestNextQueue)
  /\ WF_vars(OnRequestNextExhausted)
  /\ WF_vars(\E i \in 1..MaxPending : RequestNextResume(i))
  /\ WF_vars(OnDisconnect)
  /\ WF_vars(OnError)
  /\ SF_vars(OnMessage)
  /\ WF_vars(play)
  /\ SF_vars(OnIdle /\ player = "stopping")
  /\ SF_vars(Timer)

SignalledEncoderExits ==
  \A p \in Pids :
    SF_vars(\E status \in {"exit0", "exitErr", "exitSig"} :
              procs[p] = "signalled" /\ ProcessExit(p, status))

SpecTimers == Init /\ [][NextSkip]_vars /\ Scheduling

SpecSkip == Init /\ [][NextSkip]_vars /\ Scheduling /\ SignalledEncoderExits

\* The guild map: users join, leave, skip and enqueue whenever they like,
\* whether or not the guild has an entry, /join may replace an entry whose
\* worker is still running, and a replaced worker may lose its connection.
NextGuilds ==
  \/ Join
  \/ LeaveCommand(FALSE)
  \/ SkipRoute
  \/ \E url \in {"YT", "bad"} : YoutubePlayRoute(url)
  \/ RequestPlayRoute("Alb", 1)
  \/ OnRequestNextQueue
  \/ OnRequestNextExhausted
  \/ \E i \in 1..MaxPending : RequestNextResume(i)
  \/ OnDisconnect
  \/ OnError
  \/ OrphanDisconnect
  \/ Worker
  \/ WorkerDiscard

SpecGuilds == Init /\ [][NextGuilds]_vars

\* Errors: a session fed by /requestplay and by random picks while the
\* library is parsed again, in which ffmpeg may fail to start, encoders may
\* exit abnormally or ignore SIGTERM, and the runtime schedules every handler,
\* every timer and the end of every stream.
NextErrors ==
  \/ Orchestrator
  \/ OnRequestNextRandom
  \/ loadLibraryDataAsync
  \/ \E album \in {"Alb"}, i \in 1..3 :
       /\ Joined
       /\ album \in DOMAIN Library(lib).artistMap
       /\ i <= Len(Library(lib).artistMap[album])
       /\ RequestPlayRoute(album, i)
  \/ Initialize
  \/ OnReady
  \/ OnIdle
  \/ OnMessage
  \/ play
  \/ playSpawnFails
  \/ Encoder
  \/ Timer

SpecErrors ==
  /\ Init
  /\ [][NextErrors]_vars
  /\ Scheduling
  /\ SignalledEncoderExits
  /\ WF_vars(OnRequestNextRandom)
  /\ WF_vars(play \/ playSpawnFails)
  /\ SF_vars(OnIdle)

\* Voice states: a session in which members of any guild and channel come
\* and go, the bot included, and the guild's channel may be deleted.
NextVoice ==
  \/ Orchestrator
  \/ Worker
  \/ Joined /\ YoutubePlayRoute("YT")
  \/ LeaveCommand(FALSE)
  \/ \E sameGuild \in BOOLEAN, thisChannel \in BOOLEAN, cached \in BOOLEAN,
        botLeft \in BOOLEAN, nonBot \in 0..1 :
       OnVoiceStateUpdate(sameGuild, thisChannel, cached, botLeft, nonBot)

SpecVoice == Init /\ [][NextVoice]_vars

\* The protocol: a session whose two ports also receive what the message
\* types allow and the peers never send, a play command without data or
\* without tracks, and messages of a tag no handler knows.
PostMessage(message) ==
  /\ guildStateMap = "active"
  /\ CanPost
  /\ toWorker' = Append(toWorker, message)
  /\ UNCHANGED <<orch, toMain, wrk>>

PostEvent(message) ==
  /\ worker = "running"
  /\ CanEmit
  /\ toMain' = Append(toMain, message)
  /\ UNCHANGED <<orch, toWorker, wrk>>

PlayWithoutData == [event |-> "play"]
PlayWithoutTracks == [event |-> "play", data |-> << >>]
UnknownCommand == [event |-> "pause"]
UnknownEvent == [event |-> "status"]

NextProtocol ==
  \/ Orchestrator
  \/ OnLog
  \/ OnUnknownEvent
  \/ Worker
  \/ Joined /\ YoutubePlayRoute("YT")
  \/ \E message \in {PlayWithoutData, PlayWithoutTracks, UnknownCommand} :
       PostMessage(message)
  \/ PostEvent(UnknownEvent)

SpecProtocol == Init /\ [][NextProtocol]_vars

\* Two guilds: the sessions of the first guild and of H interleaved, with the
\* voice-state changes of H that the client of the first guild's worker
\* receives too.
FirstPeerJoin == peer.map = "none" /\ PeerJoin

PeerStep ==
  \/ FirstPeerJoin
  \/ PeerInitialize
  \/ PeerOnReady
  \/ PeerSkipRoute
  \/ PeerLeaveCommand
  \/ PeerYoutubePlayRoute("YT")
  \/ PeerOnRequestNext
  \/ PeerOnDisconnect
  \/ PeerOnMessage
  \/ PeerOnIdle

GuildStep ==
  \/ Orchestrator
  \/ Initialize
  \/ OnReady
  \/ OnIdle
  \/ OnMessage
  \/ play
  \/ \E p \in Pids, status \in {"exit0", "exitSig"} :
       procs[p] = "signalled" /\ ProcessExit(p, status)
  \/ WorkerDiscard
  \/ Joined /\ YoutubePlayRoute("YT")
  \/ Joined /\ SkipRoute
  \/ LeaveCommand(FALSE)
  \/ \E thisChannel \in BOOLEAN, nonBot \in 0..1 :
       OnVoiceStateUpdate(FALSE, thisChannel, TRUE, FALSE, nonBot)

NextIsolation == GuildStep \/ PeerStep

SpecIsolation == Init /\ [][NextIsolation]_vars

\* musicService called on every small album: a bucket of up to MaxLen
\* tracks on discs 1..2 with track numbers 1..2, each with or without the
\* sequence key and the two shuffle flags, in the order sortArtistMap leaves
\* a bucket in.  A behaviour is one call.
Names == <<"a", "b", "c", "d">>

BucketOf(f) ==
  [i \in DOMAIN f |->
     Trk(Names[i], "Alb", f[i][1], f[i][2], f[i][3], f[i][4], f[i][5])]

\* TrackProcessor.sortArtistMap: by Disc Number, then by Track Number
SortedByDiscAndTrack(b) ==
  \A i \in 1..Len(b) - 1 :
    \/ b[i].disc < b[i + 1].disc
    \/ b[i].disc = b[i + 1].disc /\ b[i].num <= b[i + 1].num

SequenceBuckets ==
  {b \in UNION {{BucketOf(f) : f \in [1..n -> {"K", NoKey} \X (1..2) \X (1..2) \X {""} \X {""}]}
                  : n \in 1..MaxLen} :
     SortedByDiscAndTrack(b)}

ShuffleBuckets ==
  UNION {{BucketOf(f) : f \in [1..n -> {NoKey} \X {1} \X {1} \X {"", "1"} \X {"", "B"}]}
           : n \in 1..MaxLen}

LibraryOf(bucket) ==
  [allTracksCount |-> Len(bucket), albums |-> <<"Alb">>,
   artistMap |-> [a \in {"Alb"} |-> bucket]]

CallSequenceTracks(bucket, i) ==
  /\ call' = [f |-> "sequenceTracks", track |-> bucket[i], bucket |-> bucket,
              result |-> sequenceTracks(bucket[i], LibraryOf(bucket))]
  /\ UNCHANGED <<reply, peer, guild>>

CallGetRandomItem(L) ==
  /\ \E selectedTrack \in getRandomItem(L) :
       call' = [f |-> "getRandomItem", library |-> L, result |-> selectedTrack]
  /\ UNCHANGED <<reply, peer, guild>>

NextMusic ==
  \/ \E bucket \in SequenceBuckets, i \in 1..MaxLen :
       call = NoCall /\ i <= Len(bucket) /\ CallSequenceTracks(bucket, i)
  \/ \E bucket \in ShuffleBuckets :
       call = NoCall /\ CallGetRandomItem(LibraryOf(bucket))
  \/ call = NoCall /\ CallGetRandomItem(EmptyLibrary)

SpecMusic == Init /\ [][NextMusic]_vars

\* Enqueueing: /requestplay and /youtubeplay, whose download takes time,
\* in a guild whose users may /join again at any time, with the library of
\* the first parse.
NextEnqueue ==
  \/ Join
  \/ lib = 0 /\ loadLibraryDataAsync
  \/ \E album \in {"Alb"}, i \in 1..3 :
       /\ album \in DOMAIN Library(lib).artistMap
       /\ i <= Len(Library(lib).artistMap[album])
       /\ RequestPlayRoute(album, i)
  \/ \E url \in {"YT", "bad"} : YoutubePlayLookup(url)
  \/ YoutubePlayResume
  \/ OnRequestNextQueue
  \/ OnRequestNextRandom
  \/ OnRequestNextExhausted
  \/ \E i \in 1..MaxPending : RequestNextResume(i)
  \/ OnDisconnect
  \/ OnError
  \/ OrphanDisconnect
  \/ Worker

SpecEnqueue == Init /\ [][NextEnqueue]_vars

\* Ending: the session of SpecTimers with /leave, in which a command posted
\* to a terminated worker is dropped.
NextEnding ==
  \/ NextSkip
  \/ LeaveCommand(FALSE)
  \/ WorkerDiscard

SpecEnding ==
  /\ Init
  /\ [][NextEnding]_vars
  /\ Scheduling
  /\ WF_vars(WorkerDiscard)

\* ---------------------------------------------------------------- volume
\* Decibels are integers in units of 10^-MaxTag dB, which holds every number
\* a tag text of MaxTag characters can denote.
Scale == 10 ^ MaxTag
dB(n) == n * Scale

\* The characters of a tag text: signs, two digits, the point and a letter.
Chars == {"+", "-", "0", "5", ".", "d"}
Texts == UNION {[1..n -> Chars] : n \in 0..MaxTag}

IsDigit(c) == c \in {"0", "5"}
DigitValue(c) == IF c = "5" THEN 5 ELSE 0

\* String.prototype.match(/([+-]?\d+\.?\d*)/): the places where the leftmost
\* match can start, and the end of the run of digits that starts at i.
MatchStarts(text) ==
  {i \in 1..Len(text) :
     \/ IsDigit(text[i])
     \/ text[i] \in {"+", "-"} /\ i < Len(text) /\ IsDigit(text[i + 1])}

RECURSIVE DigitsEnd(_, _)
DigitsEnd(text, i) ==
  IF i <= Len(text) /\ IsDigit(text[i]) THEN DigitsEnd(text, i + 1) ELSE i

\* The digits text[i..j-1] as a number
RECURSIVE Digits(_, _, _)
Digits(text, i, j) ==
  IF j <= i THEN 0 ELSE Digits(text, i, j - 1) * 10 + DigitValue(text[j - 1])

\* parseFloat of the leftmost match, scaled
parseFloatOfMatch(text) ==
  LET start == CHOOSE i \in MatchStarts(text) : \A k \in MatchStarts(text) : i <= k
      first == IF IsDigit(text[start]) THEN start ELSE start + 1
      intEnd == DigitsEnd(text, first)
      hasPoint == intEnd <= Len(text) /\ text[intEnd] = "."
      fracEnd == IF hasPoint THEN DigitsEnd(text, intEnd + 1) ELSE intEnd
      fracLen == IF hasPoint THEN fracEnd - (intEnd + 1) ELSE 0
      magnitude == Digits(text, first, intEnd) * Scale
                     + (IF hasPoint
                          THEN Digits(text, intEnd + 1, fracEnd) * (Scale \div 10 ^ fracLen)
                          ELSE 0)
  IN  IF text[start] = "-" THEN 0 - magnitude ELSE magnitude

\* What ffprobe reports for the first file: the command or JSON.parse
\* fails, the JSON has no format, the format has no tags, or the tags, of
\* which a tag that is missing is Absent.
Absent == [absent |-> TRUE]
Tag(text) == [text |-> text]

\* The chain of || over the tags: the first tag that is present and not the
\* empty string, else the last operand.
FirstTruthy(tags) ==
  IF tags.REPLAYGAIN_ALBUM_GAIN # Absent /\ tags.REPLAYGAIN_ALBUM_GAIN # Tag(<< >>)
    THEN tags.REPLAYGAIN_ALBUM_GAIN
    ELSE tags.replaygain_album_gain

\* Faulty variant: a file without a usable tag is not adjusted.
getAlbumGainDefaultsToZero(probe) ==
  IF probe.kind # "tags" THEN 0
  ELSE LET albumGainValue == FirstTruthy(probe.tags)
       IN  IF albumGainValue # Absent /\ MatchStarts(albumGainValue.text) # {}
             THEN parseFloatOfMatch(albumGainValue.text)
             ELSE 0

\* AudioManager.getAlbumGainFromFlac
getAlbumGainFromFlac(probe) ==
  IF probe.kind # "tags" THEN dB(0 - 10)
  ELSE LET albumGainValue == FirstTruthy(probe.tags)
       IN  IF albumGainValue # Absent /\ MatchStarts(albumGainValue.text) # {}
             THEN parseFloatOfMatch(albumGainValue.text)
             ELSE dB(0 - 10)

\* Faulty variant: every play is lowered by 10 dB.
buildFfmpegArgsFixedVolume(n, probe) ==
  [albumGain |-> getAlbumGainFromFlac(probe),
   filter |-> IF n = 1 THEN "-af" ELSE "-filter_complex",
   volume |-> dB(0 - 10)]

\* AudioManager.buildFfmpegArgs: the volume filter of a play of n tracks
buildFfmpegArgs(n, probe) ==
  LET albumGain == getAlbumGainFromFlac(probe)
      volumeAdjustment == dB(0 - 18) + albumGain
  IN  [albumGain |-> albumGain,
       filter |-> IF n = 1 THEN "-af" ELSE "-filter_complex",
       volume |-> volumeAdjustment]

Probes ==
  {[kind |-> k] : k \in {"unreadable", "no format", "no tags"}}
    \cup {[kind |-> "tags",
           tags |-> [REPLAYGAIN_ALBUM_GAIN |-> upper, replaygain_album_gain |-> lower]] :
            upper \in {Absent, Tag(<< >>)}, lower \in {Absent, Tag(<<"5">>)}}
    \cup {[kind |-> "tags",
           tags |-> [REPLAYGAIN_ALBUM_GAIN |-> Tag(text), replaygain_album_gain |-> lower]] :
            text \in Texts, lower \in {Absent, Tag(<<"5">>)}}

CallBuildFfmpegArgs(n, probe) ==
  /\ call' = [f |-> "buildFfmpegArgs", tracks |-> n, probe |-> probe,
              result |-> buildFfmpegArgs(n, probe)]
  /\ UNCHANGED <<reply, peer, guild>>

\* One call, of any number of tracks and any report of ffprobe
NextVolume ==
  \E n \in 1..2, probe \in Probes : call = NoCall /\ CallBuildFfmpegArgs(n, probe)

SpecVolume == Init /\ [][NextVolume]_vars

\* ------------------------------------------------------------------ claims
\* The step in which the orchestrator takes a requestNext event off the
\* event channel.
HandlesRequestNext ==
  /\ toMain # << >>
  /\ Head(toMain).event = "requestNext"
  /\ toMain' = Tail(toMain)

\* C1: handling requestNext with a non-empty queue removes exactly the tracks
\* sequenceTracks returns for the head, and what remains is the untouched
\* suffix of the queue.
C1_DequeuesExactlyTheSequence ==
  [][(HandlesRequestNext /\ requestQueue # << >>)
       => LET tracks == sequenceTracks(Head(requestQueue), Library(lib))
          IN  Ids(requestQueue) = Ids(tracks) \o Ids(requestQueue')]_vars

\* The step in which the orchestrator posts a play command.
PostsPlay ==
  /\ Len(toWorker') = Len(toWorker) + 1
  /\ toWorker'[Len(toWorker')].event = "play"

\* The step in which the orchestrator takes any event off the event channel.
HandlesEvent == toMain # << >> /\ toMain' = Tail(toMain)

\* C2: once /leave has been issued while the worker is playing, the
\* orchestrator posts no further play command, and the next event it handles
\* is disconnect.
C2_LeaveEndsPlayback ==
  [][/\ (leaveIssued # "no" => ~PostsPlay)
     /\ (leaveIssued = "issued" /\ HandlesEvent
           => Head(toMain).event = "disconnect")]_vars

\* C3: once the worker's leave flag is set, the worker posts no further
\* requestNext event.
RequestNextCount(events) ==
  Cardinality({i \in 1..Len(events) : events[i] = RequestNext})

C3_NoRequestNextAfterLeave ==
  [][leave => RequestNextCount(toMain') <= RequestNextCount(toMain)]_vars

\* C4: a worker never has more than one live encoder subprocess.
C4_AtMostOneLiveEncoder ==
  Cardinality({p \in Pids : procs[p] \in Live}) <= 1

\* Steps of the worker: it posts a requestNext event, it posts the error of
\* a failed kill, and a waiting killFfmpegProcess call returns.
PostsRequestNext == RequestNextCount(toMain') > RequestNextCount(toMain)

KillErrorCount(events) ==
  Cardinality({i \in 1..Len(events) : events[i] = KillError})

PostsKillError == KillErrorCount(toMain') > KillErrorCount(toMain)

Returns(k) == k \in killers /\ k \notin killers'

\* C5: a requestNext posted for an idle signal is posted when the encoder the
\* handler had to terminate is no longer live (or there was none), or when
\* both phases of the escalation have finished; never while the termination
\* is still in progress.
C5_TerminatesBeforeRequestNext ==
  [][(PostsRequestNext /\ readyCount' = readyCount)
       => \/ /\ player # "idle"
             /\ player' = "idle"
             /\ ~leave
             /\ (metadata = 0 \/ procs[metadata] \notin Live)
          \/ \E k \in killers :
               /\ Returns(k)
               /\ k.caller = "idle"
               /\ (procs'[k.proc] \notin Live \/ (k.phase = "kill" /\ k.fired = 1))]_vars

\* The idle handler has killed the encoder and then posted requestNext.
C5_Witness ==
  /\ RequestNextCount(toMain) = 1
  /\ metadata # 0
  /\ procs[metadata] = "exitSig"
  /\ player = "idle"
  /\ ~leave

\* C7: for an encoder that does not exit on SIGTERM, SIGKILL is sent only
\* after the first timer has fired, the error of a failed kill is posted only
\* when the second timer fires and the call returns in that same step, and
\* no call waits for ever (one call waits at a time in a session with one
\* ready signal).
C7_EscalationOrder ==
  /\ [](\A k \in killers : (k.phase = "kill") <=> (k.fired = 1))
  /\ [][(PostsKillError /\ metadata # 0 /\ procs[metadata] \in Live)
          => \E k \in killers :
               Returns(k) /\ k.phase = "kill" /\ k.fired = 1]_vars
  /\ [](Cardinality(killers) <= 1)
  /\ (killers # {}) ~> (killers = {})

\* Both timers of a call have fired, the error is posted, the call has
\* returned and the encoder is still live.
C7_Witness ==
  /\ KillErrorCount(toMain) = 1
  /\ killers = {}
  /\ metadata # 0
  /\ procs[metadata] = "signalled"

\* The step in which the worker handles a shutdown command, or a
\* handleShutdown suspended in killFfmpegProcess goes on.
HandlesShutdown ==
  \/ /\ toWorker # << >>
     /\ Head(toWorker).event = "shutdown"
     /\ toWorker' = Tail(toWorker)
  \/ \E k \in killers : k.caller = "shutdown"

C9_ExhaustedLeaves ==
  [][(HandlesRequestNext /\ requestQueue = << >>
        /\ Null \in getRandomItem(Library(lib)))
       => /\ currentTrack' = NullTracks
          /\ playbackStartTime' = Undefined
          /\ currentTrackDuration' = Undefined
          /\ toWorker' = Append(toWorker, [event |-> "leave"])
          /\ pendingNext' = pendingNext
          /\ requestQueue' = << >>]_vars

\* A track has been played, and the next requestNext found nothing to play.
C9_Witness ==
  /\ guildStateMap = "active"
  /\ currentTrack = NullTracks
  /\ currentTrackDuration = Undefined
  /\ metadata # 0
  /\ toWorker = <<[event |-> "leave"]>>

\* The tracks of a library that shuffling may pick.
EligibleTracks(L) ==
  {Flatten(L, 1)[i] : i \in {j \in 1..Len(Flatten(L, 1)) : Eligible(Flatten(L, 1)[j])}}

\* The play command a resumed requestNext handler posts carries the tracks
\* the handler chose.
PlayCarriesChoice ==
  PostsPlay => \E i \in 1..Len(pendingNext) :
                 toWorker'[Len(toWorker')].data = Ids(pendingNext[i])

\* C10 as stated: with an empty queue and exactly one eligible track T,
\* every requestNext plays [T] and leaves the queue empty.
C10_PlaysTheTrackAlone ==
  [][/\ PlayCarriesChoice
     /\ (HandlesRequestNext /\ requestQueue = << >>)
          => \A T \in EligibleTracks(Library(lib)) :
               EligibleTracks(Library(lib)) = {T}
                 => /\ pendingNext' = Append(pendingNext, <<T>>)
                    /\ currentTrack' = <<T>>
                    /\ requestQueue' = << >>]_vars

\* C10: with an empty queue and exactly one eligible track T, every
\* requestNext plays sequenceTracks(T), which is [T] when T has no sequence
\* key, and leaves the queue empty.
C10_PlaysTheSequenceOfTheTrack ==
  [][/\ PlayCarriesChoice
     /\ (HandlesRequestNext /\ requestQueue = << >>)
          => \A T \in EligibleTracks(Library(lib)) :
               EligibleTracks(Library(lib)) = {T}
                 => /\ pendingNext'
                         = Append(pendingNext, sequenceTracks(T, Library(lib)))
                    /\ currentTrack' = sequenceTracks(T, Library(lib))
                    /\ (T.key = NoKey => currentTrack' = <<T>>)
                    /\ requestQueue' = << >>]_vars

\* The only eligible track has a sequence key; a track has been played and
\* the play command of the next random pick is on its way.
C10_Witness ==
  /\ EligibleTracks(Library(lib)) = {S1B}
  /\ requestQueue = << >>
  /\ metadata # 0
  /\ currentTrack = <<S1B, S2>>
  /\ toWorker = <<[event |-> "play", data |-> <<"S1", "S2">>]>>

\* The worker handles a skip command.
HandlesSkip ==
  /\ worker = "running"
  /\ toWorker # << >>
  /\ Head(toWorker).event = "skip"
  /\ toWorker' = Tail(toWorker)

\* A skip has stopped the playing player, and leave is not set.
Skipped == worker = "running" /\ player = "stopping" /\ ~leave

\* What a session with one ready signal has in circulation: a requestNext
\* event, its handler, the play command, its handler, the playing player or
\* the idle handler waiting for the encoder.
Circulating ==
  RequestNextCount(toMain) + Len(pendingNext)
    + Cardinality({i \in 1..Len(toWorker) : toWorker[i].event = "play"})
    + pendingPlay
    + (IF player = "idle" THEN 0 ELSE 1)
    + Cardinality({k \in killers : k.caller = "idle"})

\* C6: a skip handled while the player is playing stops the player and
\* leaves the leave flag alone; the encoder of the skipped track then exits,
\* one requestNext follows, its handler takes the head of the queue, and the
\* next play command carries that head.
C6_SkipPlaysHeadOfQueue ==
  /\ [][(HandlesSkip /\ player = "playing")
          => /\ player' = "stopping"
             /\ leave' = leave
             /\ UNCHANGED <<procs, metadata, toMain, killers>>]_vars
  /\ [](Circulating <= 1)
  /\ [][/\ PlayCarriesChoice
         /\ (HandlesRequestNext /\ requestQueue # << >>)
              => /\ pendingNext' = Append(pendingNext, <<Head(requestQueue)>>)
                 /\ requestQueue' = Tail(requestQueue)]_vars
  /\ \A p \in Pids : (Skipped /\ metadata = p) ~> (procs[p] \notin Live)
  /\ Skipped ~> (RequestNextCount(toMain) = 1)
  /\ \A A \in {YT, YT2} :
       (Skipped /\ requestQueue # << >> /\ Head(requestQueue) = A)
         ~> (\E i \in 1..Len(toWorker) :
               toWorker[i] = [event |-> "play", data |-> <<A.id>>])

\* A track is playing, the queue is [YT, YT2], and a skip has just stopped
\* the player.
C6_Witness ==
  /\ Skipped
  /\ requestQueue = <<YT, YT2>>
  /\ metadata # 0
  /\ procs[metadata] = "live"

\* The step in which the orchestrator takes a disconnect event off the event
\* channel.
HandlesDisconnect ==
  /\ toMain # << >>
  /\ Head(toMain).event = "disconnect"
  /\ toMain' = Tail(toMain)

\* C11: handling a disconnect event posts shutdown to the worker, deletes the
\* guild's entry, so that getGuildState returns undefined, and then sends
\* the queue notification, which already finds no state.
C11_DisconnectTearsDown ==
  [][HandlesDisconnect
       => /\ toWorker' = Append(toWorker, [event |-> "shutdown"])
          /\ guildStateMap = "active"
          /\ getGuildState(guildStateMap') = "undefined"
          /\ notice' = "undefined"]_vars

\* A session that has played is torn down: shutdown is on its way to the
\* running worker, the entry is gone and the notification has found none.
C11_Witness ==
  /\ guildStateMap = "deleted"
  /\ notice = "undefined"
  /\ toWorker = <<[event |-> "shutdown"]>>
  /\ worker = "running"
  /\ metadata # 0

\* C12: while the guild has an entry, currentTrack is non-empty exactly when
\* the worker's player is streaming.
C12_CurrentTrackIffStreaming ==
  guildStateMap = "active"
    => ((currentTrack \notin {<< >>, NullTracks}) <=> (player # "idle"))

\* Workers of the guild that have not exited.
LiveWorkers == orphans + (IF worker \in {"init", "running"} THEN 1 ELSE 0)

\* C13: at most one worker of the guild is alive, the one the guild's entry
\* names.
C13_OneWorkerPerGuild == LiveWorkers <= 1

\* A step of a user's leave, skip or enqueue request: no worker, no handler
\* of a worker event, no library parse and no /join takes part in it.
RequestStep ==
  /\ toMain' = toMain
  /\ pendingNext' = pendingNext
  /\ wrk' = wrk
  /\ lib' = lib
  /\ orphans' = orphans
  /\ Len(toWorker') >= Len(toWorker)

\* C14: a leave, skip or enqueue request for a guild without an entry posts
\* no command and changes no guild state; the HTTP routes answer 400.
C14_NoEntryNoEffect ==
  [][(guildStateMap # "active" /\ RequestStep)
       => /\ toWorker' = toWorker
          /\ UNCHANGED <<guildStateMap, currentTrack, requestQueue,
                         playbackStartTime, currentTrackDuration, notice>>
          /\ res' = NotJoined]_vars

\* A request has been rejected after the guild's session ended.
C14_Witness ==
  /\ guildStateMap = "deleted"
  /\ worker = "exit0"
  /\ res = NotJoined
  /\ toWorker = << >>

\* An error event, and a requestNext or disconnect event, is on its way to
\* the orchestrator.
ErrorEmitted == \E i \in 1..Len(toMain) : toMain[i].event = "error"

ProgressEmitted ==
  \E i \in 1..Len(toMain) : toMain[i].event \in {"requestNext", "disconnect"}

\* C15: after an error event the worker goes on to emit requestNext or
\* disconnect, unless the session has already ended.
C15_ErrorsNeverStall ==
  ErrorEmitted ~> (ProgressEmitted \/ guildStateMap = "deleted")

\* C16: once the voice connection is destroyed, or the worker has died of a
\* failed initialization, the orchestrator deletes the guild's entry.
C16_DeathTearsDown ==
  (conn = "destroyed" \/ worker = "exit1") ~> (guildStateMap = "deleted")

\* The step sets the leave flag and disconnects.
Leaves ==
  /\ ~leave
  /\ leave'
  /\ player' = disconnect.player
  /\ conn' = disconnect.conn
  /\ toMain' = toMain \o disconnect.events

HandlesPlayWithoutTracks ==
  /\ worker = "running"
  /\ toWorker # << >>
  /\ Head(toWorker).event = "play"
  /\ ("data" \notin DOMAIN Head(toWorker) \/ Head(toWorker).data = << >>)
  /\ toWorker' = Tail(toWorker)

\* What the rejected play command must leave alone: no encoder is spawned or
\* about to be, the pipeline and the leave flag stay as they are.
RejectedPlayChangesNothing ==
  UNCHANGED <<procs, metadata, player, pendingPlay, killers, leave, conn,
              worker, orch>>

\* C18 as stated: a play command without data or without tracks spawns no
\* encoder, leaves the pipeline and the leave flag unchanged, and nothing is
\* posted to the orchestrator.
C18_RejectedPlayStaysLocal ==
  [][HandlesPlayWithoutTracks
       => (RejectedPlayChangesNothing /\ toMain' = toMain)]_vars

\* C18: a play command without data or without tracks spawns no encoder and
\* leaves the pipeline and the leave flag unchanged; the worker posts exactly
\* one error event for it, "Play message requires track data" when data is
\* absent and "No tracks provided." when the list is empty, and the
\* orchestrator's handling of an error event posts no command and changes
\* no state of the guild.
C18_RejectedPlayIsReported ==
  /\ [][HandlesPlayWithoutTracks
         => /\ RejectedPlayChangesNothing
            /\ toMain' = Append(toMain,
                 IF "data" \notin DOMAIN Head(toWorker)
                   THEN ErrorEvent("Play message requires track data")
                   ELSE ErrorEvent("No tracks provided."))]_vars
  /\ [][(toMain # << >> /\ Head(toMain).event = "error" /\ toMain' = Tail(toMain))
         => /\ toWorker' = toWorker
            /\ UNCHANGED <<guildStateMap, currentTrack, requestQueue,
                           playbackStartTime, currentTrackDuration,
                           pendingNext, notice, wrk>>]_vars

\* A track is playing and the error of a play command without data is on its
\* way to the orchestrator.
C18_Witness ==
  /\ worker = "running"
  /\ player = "playing"
  /\ metadata # 0
  /\ procs[metadata] = "live"
  /\ pendingPlay = 0
  /\ ~leave
  /\ toMain = <<ErrorEvent("Play message requires track data")>>

\* The worker takes a command of an unknown tag.
HandlesUnknownCommand ==
  /\ worker = "running"
  /\ toWorker # << >>
  /\ Head(toWorker).event \notin {"leave", "play", "skip", "shutdown"}
  /\ toWorker' = Tail(toWorker)

\* The orchestrator takes an event of an unknown tag.
HandlesUnknownEvent ==
  /\ toMain # << >>
  /\ Head(toMain).event \notin KnownEvents
  /\ toMain' = Tail(toMain)

\* The orchestrator takes the log event of an unknown command.
HandlesUnknownCommandLog ==
  /\ toMain # << >>
  /\ Head(toMain) = UnknownMessageLog
  /\ toMain' = Tail(toMain)

\* The playback, connection and queue state of both sides.
SessionState ==
  <<guildStateMap, currentTrack, requestQueue, playbackStartTime,
    currentTrackDuration, pendingNext, notice, res, worker, leave, conn,
    readyCount, player, metadata, procs, pendingPlay, killers>>

\* An unknown command changes nothing in the worker and causes one log
\* event, which the orchestrator prints and which changes nothing else.
UnknownCommandIsLogged ==
  /\ [][HandlesUnknownCommand
         => /\ toMain' = Append(toMain, UnknownMessageLog)
            /\ UNCHANGED <<SessionState, console>>]_vars
  /\ [][HandlesUnknownCommandLog
         => /\ console' = "Unknown message event"
            /\ toWorker' = toWorker
            /\ UNCHANGED SessionState]_vars

\* C19 as stated: an unknown command in the worker and an unknown event in
\* the orchestrator are both logged, and change no playback, connection or
\* queue state and cause no other command or event.
C19_UnknownTagsAreLogged ==
  /\ UnknownCommandIsLogged
  /\ [][HandlesUnknownEvent
         => /\ console' = "Unknown event"
            /\ toWorker' = toWorker
            /\ UNCHANGED SessionState]_vars

\* C19: an unknown command in the worker changes no state and causes one log
\* event, which the orchestrator prints; an unknown event in the
\* orchestrator is dropped without any log, changes no playback, connection
\* or queue state and causes no command.
C19_UnknownEventIsDropped ==
  /\ UnknownCommandIsLogged
  /\ [][HandlesUnknownEvent
         => /\ toWorker' = toWorker
            /\ UNCHANGED <<SessionState, console>>]_vars

\* A track is playing, the log of an unknown command has been printed, and
\* an event of an unknown tag is at the head of the orchestrator's port.
C19_Witness ==
  /\ guildStateMap = "active"
  /\ worker = "running"
  /\ player = "playing"
  /\ console = "Unknown message event"
  /\ toMain # << >>
  /\ Head(toMain) = UnknownEvent

\* The Ready listener runs.
ReadySignal == readyCount' = readyCount + 1

\* The Idle listener runs, or resumes after its killFfmpegProcess call.
IdleSignal ==
  \/ worker = "running" /\ player \in {"playing", "stopping"} /\ player' = "idle"
  \/ \E k \in killers : k.caller = "idle" /\ Returns(k)

\* C20: an encoder that exits abnormally while the worker runs makes the
\* worker post the error event, and a requestNext follows it in that step
\* only when the Idle listener was waiting for that exit; every step that
\* posts requestNext is a step of the Ready listener or of the Idle listener.
C20_RequestNextOnlyFromReadyOrIdle ==
  /\ [][\A p \in Pids :
          (worker = "running" /\ ProcessExit(p, "exitErr"))
            => /\ Len(toMain') > Len(toMain)
               /\ toMain'[Len(toMain) + 1] = ErrorEvent("FFMPEG process exited")
               /\ (PostsRequestNext
                     <=> \E k \in killers : k.proc = p /\ k.caller = "idle")]_vars
  /\ [][PostsRequestNext => (ReadySignal \/ IdleSignal)]_vars

\* The encoder of the playing track has exited abnormally: the error is on
\* its way, the player still plays, and no requestNext, handler or play
\* command is anywhere.
C20_Witness ==
  /\ worker = "running"
  /\ player = "playing"
  /\ metadata # 0
  /\ procs[metadata] = "exitErr"
  /\ killers = {}
  /\ toMain = <<ErrorEvent("FFMPEG process exited")>>
  /\ pendingNext = << >>
  /\ pendingPlay = 0
  /\ toWorker = << >>

\* What the claim calls a guild's queue state, worker, leave flag and
\* encoder subprocess, with the guild's two ports, for the first guild.
GuildSession ==
  <<guildStateMap, currentTrack, requestQueue, playbackStartTime,
    currentTrackDuration, pendingNext, toWorker, toMain, wrk>>

\* C21: a route, command or worker event of one guild leaves the session of
\* the other guild unchanged, whatever the order in which the steps of the
\* two guilds are taken; no step changes both sessions.
C21_GuildsAreIsolated ==
  [][/\ GuildStep => peer' = peer
     /\ PeerStep => GuildSession' = GuildSession
     /\ ~(peer' # peer /\ GuildSession' # GuildSession)]_vars

\* Both guilds are playing with a track queued, and a skip of the first
\* guild has just stopped its player: the player, the encoder, the queue
\* and the leave flag of H are as they were.
C21_Witness ==
  /\ guildStateMap = "active"
  /\ player = "stopping"
  /\ requestQueue # << >>
  /\ peer.map = "active"
  /\ peer.player = "playing"
  /\ peer.encoder = "live"
  /\ peer.requestQueue # << >>
  /\ ~peer.leave
  /\ peer.toWorker = << >>

\* The tracks of a bucket that carry a key, in bucket order.
SharingKey(bucket, key) == SelectSeq(bucket, LAMBDA t : t.key = key)

\* s holds exactly the tracks of t, each once.
SameTracks(s, t) ==
  /\ Len(s) = Len(t)
  /\ \A i \in 1..Len(t) : \E j \in 1..Len(s) : s[j] = t[i]

\* The place of a track in a bucket (the ids of a bucket differ).
PlaceIn(bucket, t) == CHOOSE i \in 1..Len(bucket) : bucket[i] = t

\* s is in ascending (disc, track) order, tracks with the same pair in the
\* order they have in the bucket.
OrderedByDiscAndTrack(s, bucket) ==
  \A i \in 1..Len(s), j \in 1..Len(s) :
    i < j =>
      \/ s[i].disc < s[j].disc
      \/ s[i].disc = s[j].disc /\ s[i].num < s[j].num
      \/ /\ s[i].disc = s[j].disc
         /\ s[i].num = s[j].num
         /\ PlaceIn(bucket, s[i]) < PlaceIn(bucket, s[j])

\* C22: for a track with a sequence key sequenceTracks returns exactly the
\* tracks of the bucket that share the key, in ascending (disc, track)
\* order with ties in bucket order; for a track without a key it returns
\* the list of that one track.
C22_SequenceOrderedByDiscAndTrack ==
  call.f = "sequenceTracks"
    => IF call.track.key # NoKey
         THEN /\ SameTracks(call.result, SharingKey(call.bucket, call.track.key))
              /\ OrderedByDiscAndTrack(call.result, call.bucket)
         ELSE call.result = <<call.track>>

\* C23: getRandomItem never returns a track excluded from shuffling; it
\* returns null exactly when the library has no eligible track, and
\* otherwise an eligible track of the library.
C23_RandomItemIsEligible ==
  call.f = "getRandomItem"
    => LET ts == Flatten(call.library, 1)
           eligible == {ts[i] : i \in {j \in 1..Len(ts) : Eligible(ts[j])}}
       IN  /\ call.result = Null <=> eligible = {}
           /\ call.result # Null => call.result \in eligible

\* The first and the last track of the album are excluded from shuffling,
\* one by each flag, and the call has returned the track between them.
C23_Witness ==
  /\ call.f = "getRandomItem"
  /\ Len(Flatten(call.library, 1)) = 3
  /\ Flatten(call.library, 1)[1].skip = "1"
  /\ Flatten(call.library, 1)[3].love = "B"
  /\ call.result = Flatten(call.library, 1)[2]

\* /requestplay finds its track in an active guild.
RequestPlayEnqueues(album, i) ==
  /\ guildStateMap = "active"
  /\ album \in DOMAIN Library(lib).artistMap
  /\ i \in 1..Len(Library(lib).artistMap[album])
  /\ RequestPlayRoute(album, i)

\* /youtubeplay, whose guild was active when it arrived, has its track and
\* finishes while the guild is active.
YoutubePlayEnqueues ==
  /\ guildStateMap = "active"
  /\ pendingYoutube # NoDownload
  /\ youtubeUrlToTrackInfo(pendingYoutube.url) # Null
  /\ YoutubePlayResume

\* What an enqueue leaves alone, and its notification and answer.
EnqueueFrame ==
  /\ toWorker' = toWorker
  /\ UNCHANGED <<currentTrack, guildStateMap, playbackStartTime,
                 currentTrackDuration, toMain, wrk>>
  /\ notice' = "GuildState"
  /\ res' = "ok"

\* C24: an enqueue on an active guild appends the requested tracks at the
\* tail of requestQueue, leaves the tracks already queued and currentTrack
\* unchanged, posts no command to the worker and notifies once with the
\* guild's state.
C24_EnqueueAppends ==
  /\ [][\A i \in 1..MaxLen :
          RequestPlayEnqueues("Alb", i)
            => /\ requestQueue' = requestQueue
                    \o sequenceTracks(Library(lib).artistMap["Alb"][i], Library(lib))
               /\ EnqueueFrame]_vars
  /\ [][YoutubePlayEnqueues
          => /\ requestQueue' = Append(requestQueue,
                                       youtubeUrlToTrackInfo(pendingYoutube.url))
             /\ EnqueueFrame]_vars

\* C25: the reply that reports the bot as joined is sent only when the new
\* worker has initialized or has failed, never while its outcome is unknown.
C25_JoinWaitsForWorker ==
  reply = "joined" => worker # "init"

\* C26: every connection-ready signal makes the worker post exactly one
\* requestNext event and changes nothing else but the connection state.
C26_ReadyPostsOneRequestNext ==
  [][ReadySignal
       => /\ toMain' = Append(toMain, RequestNext)
          /\ conn' = "ready"
          /\ UNCHANGED <<toWorker, worker, leave, player, metadata, procs,
                         pendingPlay, killers>>]_vars

\* The connection has just become ready: the requestNext of the signal is
\* on its way and nothing has been played yet.
C26_Witness ==
  /\ worker = "running"
  /\ conn = "ready"
  /\ readyCount = 1
  /\ toMain = <<RequestNext>>
  /\ player = "idle"
  /\ metadata = 0
  /\ currentTrack = << >>

DisconnectCount(events) ==
  Cardinality({i \in 1..Len(events) : events[i] = DisconnectEvent})

\* The connection goes from signalling or ready to destroyed.
ConnectionDestroyed ==
  conn \in {"signalling", "ready"} /\ conn' = "destroyed"

\* C27: once the worker has taken a leave request, by command or by
\* auto-leave, its connection is destroyed; the step that destroys a
\* connection, for a leave or for a connection-disconnected signal, posts
\* exactly one disconnect event, no other step posts one, and a destroyed
\* connection stays destroyed, so that a worker posts one disconnect event.
C27_LeaveDestroysAndDisconnectsOnce ==
  /\ []((worker = "running" /\ leave) => conn = "destroyed")
  /\ [][ConnectionDestroyed => toMain' = Append(toMain, DisconnectEvent)]_vars
  /\ [][DisconnectCount(toMain') > DisconnectCount(toMain)
          => ConnectionDestroyed]_vars
  /\ [][conn = "destroyed" => (conn' = "destroyed" \/ worker' = "init")]_vars

\* A leave was handled while a track was playing: the player has been
\* stopped, the connection is destroyed and the disconnect event is on its
\* way.
C27_Witness ==
  /\ worker = "running"
  /\ leave
  /\ conn = "destroyed"
  /\ player = "stopping"
  /\ toMain = <<DisconnectEvent>>

\* A leave has been requested: a leave command, of /leave or of the
\* exhausted requestNext handler, is posted to the guild's worker, or the
\* worker has set its leave flag.
LeaveRequested ==
  /\ guildStateMap = "active"
  /\ \/ \E i \in 1..Len(toWorker) : toWorker[i].event = "leave"
     \/ worker = "running" /\ leave

\* The session has ended: the guild's entry is removed and the worker has
\* terminated in handleShutdown.
SessionEnded == guildStateMap = "deleted" /\ worker = "exit0"

\* C28: once a leave has been requested for a guild, by /leave, by
\* auto-leave or because the queue and the random pool are exhausted, the
\* guild's entry is eventually removed and the worker terminates.
C28_LeaveEndsSession == LeaveRequested ~> SessionEnded

\* The album-gain tag the lookup uses, and whether its text holds a number.
GainTag(probe) == FirstTruthy(probe.tags)

TagFound(probe) ==
  probe.kind = "tags" /\ GainTag(probe) # Absent /\ GainTag(probe).text # << >>

HasNumber(text) == \E i \in 1..Len(text) : IsDigit(text[i])

\* The volume is the base attenuation of -18 dB plus the gain, in the filter
\* of a single-track play and in that of a multi-track play.
VolumeIsBasePlusGain ==
  /\ call.result.volume = dB(0 - 18) + call.result.albumGain
  /\ call.result.filter = (IF call.tracks = 1 THEN "-af" ELSE "-filter_complex")

CallsKillFfmpegProcess ==
  /\ worker = "running"
  /\ \/ /\ toWorker # << >>
        /\ Head(toWorker).event = "shutdown"
        /\ toWorker' = Tail(toWorker)
     \/ player \in {"playing", "stopping"} /\ player' = "idle" /\ ~leave

\* The encoder metadata names has terminated, by itself or by a signal.
EncoderTerminated == metadata # 0 /\ procs[metadata] \notin Live

\* C31: killFfmpegProcess called when the encoder has already terminated,
\* by itself or by a signal of an earlier call, sends no signal and posts no
\* error event.
C31_KillOfTerminatedEncoderDoesNothing ==
  [][(CallsKillFfmpegProcess /\ EncoderTerminated)
       => (~PostsKillError /\ procs' = procs)]_vars

\* The step in which the orchestrator posts a leave command while it handles
\* an event, and the step in which a requestNext handler suspends with the
\* tracks of the play command it will post.
PostsLeave ==
  /\ Len(toWorker') = Len(toWorker) + 1
  /\ toWorker'[Len(toWorker')].event = "leave"

SuspendsWithPlay == Len(pendingNext') = Len(pendingNext) + 1

ResumesWithPlay == Len(pendingNext') = Len(pendingNext) - 1

\* C32: for every requestNext event the orchestrator handles it posts
\* exactly one command, a leave at once or the play of the tracks it chose
\* once their duration is known; and it posts a play command only then.
C32_OneCommandPerRequestNext ==
  /\ [][HandlesRequestNext
          => \/ PostsLeave /\ ~SuspendsWithPlay
             \/ SuspendsWithPlay /\ toWorker' = toWorker]_vars
  /\ [][ResumesWithPlay
          => /\ PostsPlay
             /\ \E i \in 1..Len(pendingNext) :
                  toWorker' = Append(toWorker, [event |-> "play",
                                                data |-> Ids(pendingNext[i])])]_vars
  /\ [][PostsPlay => ResumesWithPlay]_vars

\* Steps on the guild's queue: an enqueue appends to it, a requestNext
\* handler takes a prefix of it to play, and the handler that finishes posts
\* the play command of the tracks it took.
Enqueues ==
  /\ Len(requestQueue') > Len(requestQueue)
  /\ SubSeq(requestQueue', 1, Len(requestQueue)) = requestQueue

TakesPrefix ==
  /\ HandlesRequestNext
  /\ SuspendsWithPlay
  /\ Ids(requestQueue) = Ids(pendingNext'[Len(pendingNext')]) \o Ids(requestQueue')

PlaysOldestTaken ==
  /\ pendingNext # << >>
  /\ pendingNext' = Tail(pendingNext)
  /\ toWorker' = Append(toWorker, [event |-> "play",
                                    data |-> Ids(Head(pendingNext))])

\* C33: with a static library every track appended to requestQueue stays in
\* the queue until a requestNext handler takes it, a handler takes a prefix
\* of the queue, every taken list is carried by one play command, and the
\* play commands are posted in the order the lists were taken, which is the
\* order the tracks were enqueued in.
C33_PlayedInEnqueueOrder ==
  /\ [][requestQueue' # requestQueue => (Enqueues \/ TakesPrefix)]_vars
  /\ [][pendingNext' # pendingNext
          => (TakesPrefix \/ PlaysOldestTaken)]_vars
  /\ [][PostsPlay => PlaysOldestTaken]_vars

\* The step in which the worker terminates in handleShutdown.
ShutdownTerminates == worker = "running" /\ worker' = "exit0"

\* C34: when a worker terminates after handling shutdown, none of the
\* encoders it spawned is still running, unless the step posts the error of
\* a failed termination.
C34_NoEncoderOutlivesWorker ==
  [][ShutdownTerminates
       => \/ \A p \in Pids : procs'[p] \notin Live
          \/ PostsKillError]_vars

\* The step in which the orchestrator handles the disconnect event of a
\* worker that a later /join has replaced.
HandlesOrphanDisconnect == orphans' = orphans - 1

\* C35: a disconnect event of an earlier worker of the guild does not delete
\* the entry, the queue state and the worker handle that a later /join
\* created.
C35_DisconnectDeletesOwnStateOnly ==
  [][HandlesOrphanDisconnect
       => /\ guildStateMap' = guildStateMap
          /\ UNCHANGED <<currentTrack, requestQueue, worker>>]_vars

\* The guild's entry has been deleted: the disconnect event has been
\* handled and shutdown posted.
StateDeleted == guildStateMap = "deleted"

\* C36: once the orchestrator has posted shutdown and deleted the guild's
\* state it posts no play or leave command to that worker and changes no
\* field of the deleted state, also when a requestNext handler was suspended
\* in the duration lookup while the disconnect event was handled.
C36_NothingAfterShutdown ==
  [][StateDeleted
       => /\ ~PostsPlay
          /\ ~PostsLeave
          /\ UNCHANGED <<currentTrack, requestQueue, playbackStartTime,
                         currentTrackDuration>>]_vars

\* The step in which the worker spawns an encoder subprocess.
SpawnsEncoder == \E p \in Pids : procs[p] \notin Live /\ procs'[p] = "live"

\* C37: once the worker's leave flag is set the worker spawns no encoder
\* subprocess, neither for a play command handled after the leave nor for
\* one whose arguments were being built when the leave was handled.
C37_NoSpawnAfterLeave ==
  [][leave => ~SpawnsEncoder]_vars

\* The play commands on their way to the worker
PlayCommands == {i \in 1..Len(toWorker) : toWorker[i].event = "play"}

\* C38: with a static library and a queue filled by enqueue requests only,
\* every play command the orchestrator posts carries at least one track,
\* every suspended requestNext handler holds at least one track, and a
\* requestNext handler never sets currentTrack to the empty list.
C38_PlayCarriesTracks ==
  /\ [](\A i \in PlayCommands : toWorker[i].data # << >>)
  /\ [](\A i \in 1..Len(pendingNext) : pendingNext[i] # << >>)
  /\ [][HandlesRequestNext => currentTrack' # << >>]_vars

\* The play command of a sequence of two tracks, taken from the queue, is
\* on its way.
C38_Witness ==
  /\ lib = 2
  /\ res = "ok"
  /\ currentTrack = <<S1B, S2>>
  /\ toWorker = <<[event |-> "play", data |-> <<"S1", "S2">>]>>
  /\ requestQueue = << >>

\* A requestNext handler changes the guild's currentTrack or requestQueue.
ChangesQueueState ==
  /\ HandlesRequestNext
  /\ <<currentTrack, requestQueue>>' # <<currentTrack, requestQueue>>

\* C39: every change the orchestrator makes to currentTrack or requestQueue
\* while it handles a worker event is followed by a queue-update
\* notification before the next worker event is handled: a requestNext
\* handler that changed them is suspended and will notify when it resumes,
\* no event is handled while such a handler is suspended, and the deletion on
\* disconnect is notified in the same step.
C39_ChangeIsNotifiedBeforeNextEvent ==
  /\ [][ChangesQueueState => SuspendsWithPlay]_vars
  /\ [][HandlesEvent => pendingNext = << >>]_vars
  /\ [][(guildStateMap = "active" /\ guildStateMap' = "deleted")
          => notice' = "undefined"]_vars
====
